---- MODULE Spec2Model ----
(***************************************************************************)
(* A model of the microgrammar engine: the matchers Concat and Repetition, *)
(* the driver MatchingMachine.consume with Microgrammar.findMatches and    *)
(* firstMatch, and the update overlay of MicrogrammarUpdates.               *)
(*                                                                         *)
(* Text is a sequence of one-character strings. An input state is the      *)
(* offset of an immutable cursor (0-based, as in the code).                 *)
(***************************************************************************)
EXTENDS Integers, Sequences, FiniteSets, TLC

\* Longest input text explored.
MaxLen == 4

\* The characters input texts are made of; " " is the whitespace character.
Alphabet == {"a", "b", " "}

Texts == UNION {[1..n -> Alphabet] : n \in 0..MaxLen}

Min(x, y) == IF x <= y THEN x ELSE y

(***************************************************************************)
(* Property names. A name is its leading run of the characters "_" and "$" *)
(* (pre, a sequence) followed by the rest of the name (base, which begins  *)
(* with neither), so two names are equal iff the strings are equal.        *)
(***************************************************************************)
Nm(base) == [pre |-> <<>>, base |-> base]
Special(base) == [pre |-> <<"_">>, base |-> base]
Dollar(base) == [pre |-> <<"$">>, base |-> base]

\* name.charAt(0); "x" stands for the first character of a base.
charAt0(name) == IF Len(name.pre) > 0 THEN name.pre[1] ELSE "x"

\* "_" + name
PrivateProperty(name) == [name EXCEPT !.pre = <<"_">> \o @]

(***************************************************************************)
(* JavaScript values handed to and returned by callbacks and slots.        *)
(***************************************************************************)
JStr(s) == [t |-> "string", s |-> s]
JUndefined == [t |-> "undefined"]
JNull == [t |-> "null"]
JBool(b) == [t |-> "boolean", b |-> b]
JNum(n) == [t |-> "number", n |-> n]
JArr(items) == [t |-> "array", items |-> items]
JObj(id) == [t |-> "object", id |-> id]

\* typeof v === "object"
TypeofObject(v) == v.t \in {"object", "array", "null", "tree"}

(***************************************************************************)
(* Input state: peek, consume, advance, exhausted; whitespace skipping.    *)
(***************************************************************************)
Exhausted(input, is) == is >= Len(input)

Peek(input, is, n) == SubSeq(input, is + 1, Min(is + n, Len(input)))

Consume(is, str) == is + Len(str)

Advance(is) == is + 1

IsWhitespace(c) == c = " "

RECURSIVE SkipWhitespace(_, _)
SkipWhitespace(input, is) ==
    IF ~Exhausted(input, is) /\ IsWhitespace(input[is + 1])
    THEN SkipWhitespace(input, is + 1)
    ELSE is

\* readyToMatch(state, consumeWhiteSpaceBetweenTokens): {state, skipped}
ReadyToMatch(input, is, consumeWhiteSpaceBetweenTokens) ==
    IF consumeWhiteSpaceBetweenTokens
    THEN [state |-> SkipWhitespace(input, is),
          skipped |-> SubSeq(input, is + 1, SkipWhitespace(input, is))]
    ELSE [state |-> is, skipped |-> <<>>]

(***************************************************************************)
(* Pattern matches and match prefix results.                               *)
(***************************************************************************)
NoMatch == [kind |-> "none"]

TerminalPatternMatch(matcherId, matched, offset, value) ==
    [kind |-> "terminal", matcherId |-> matcherId, matched |-> matched,
     offset |-> offset, value |-> value, thingsInside |-> <<>>,
     name |-> <<>>]

TreePatternMatch(matcherId, matched, offset, things) ==
    [kind |-> "tree", matcherId |-> matcherId, matched |-> matched,
     offset |-> offset, value |-> [t |-> "tree"], thingsInside |-> things,
     name |-> <<>>]

isTreePatternMatch(om) == om.kind = "tree"

\* name.indexOf("_") === 0
isSpecialMember(name) == charAt0(name) = "_"

ScalarThing(name, match) ==
    [kind |-> "scalar", name |-> name, match |-> match,
     originalValue |-> match.value]

NestedThing(name, match) ==
    [kind |-> "tree", name |-> name, match |-> match]

ComputedThing(name, value) ==
    [kind |-> "compute", name |-> name, match |-> NoMatch, value |-> value]

isScalarThing(t) == t.kind = "scalar"
isNestedThing(t) == t.kind = "tree"
isComputedThing(t) == t.kind = "compute"

\* The names of a sequence of things, as a set.
ThingNames(things) == {things[i].name : i \in 1..Len(things)}

\* The thing called name (the last one, as a later defineProperty replaces).
ThingNamed(things, name) ==
    things[CHOOSE i \in 1..Len(things) :
        /\ things[i].name = name
        /\ \A j \in (i + 1)..Len(things) : things[j].name # name]

matchPrefixSuccess(match, calls) ==
    [ok |-> TRUE, thrown |-> FALSE, match |-> match, calls |-> calls]

MatchFailureReport(matcherId, offset, description, calls) ==
    [ok |-> FALSE, thrown |-> FALSE, matcherId |-> matcherId,
     offset |-> offset, description |-> description, calls |-> calls]

\* An Error thrown out of matchPrefix.
Thrown(matcherId, message) ==
    [ok |-> FALSE, thrown |-> TRUE, matcherId |-> matcherId,
     description |-> message, calls |-> <<>>]

isSuccessfulMatch(r) == r.ok

\* if (v) ...
Truthy(v) ==
    CASE v.t = "boolean" -> v.b
      [] v.t = "undefined" -> FALSE
      [] v.t = "null" -> FALSE
      [] v.t = "number" -> v.n # 0
      [] v.t = "string" -> v.s # <<>>
      [] OTHER -> TRUE

(***************************************************************************)
(* Matchers. Literal and Regex are the primitives; a Regex here is         *)
(* /[chars]+/, anchored at the cursor and taking the longest prefix.       *)
(***************************************************************************)
NoMatcher == [type |-> "none"]

\* if (matcher) ...
IsSet(matcher) == matcher.type # "none"

Literal(s) == [type |-> "Literal", id |-> <<"Literal", s>>, literal |-> s]

Regex(chars) == [type |-> "Regex", id |-> <<"Regex", chars>>, chars |-> chars]

Break(breakOn, consume) ==
    [type |-> "Break", id |-> <<"Break", breakOn.id>>, breakOn |-> breakOn,
     consume |-> consume]

\* What a definitions object maps a key to.
DString(s) == [d |-> "string", s |-> s]
DRegex(chars) == [d |-> "regex", chars |-> chars]
DMatcher(m) == [d |-> "matcher", m |-> m]
DFunction(arity, fn) == [d |-> "function", length |-> arity, fn |-> fn]
DObject(defs) == [d |-> "object", defs |-> defs]
DValue(v) == [d |-> "value", v |-> v]

\* One key of a definitions object, in declaration order.
Def(key, def) == [key |-> key, def |-> def]

HasKey(definitions, key) ==
    \E i \in 1..Len(definitions) : definitions[i].key = key

Lookup(definitions, key) ==
    definitions[CHOOSE i \in 1..Len(definitions) : definitions[i].key = key].def

methodsOnEveryMatchingLogic ==
    {Dollar("id"), Nm("matchPrefix"), Nm("canStartWith"), Nm("requiredPrefix")}

NamedMatcher(name, ml) ==
    [kind |-> "matcher", id |-> name, name |-> name, ml |-> ml]

MatchVeto(name, def) == [kind |-> "veto", id |-> name, veto |-> def.fn]

ContextComputation(name, def) ==
    [kind |-> "compute", id |-> name, compute |-> def.fn]

isMatcher(s) == s.kind = "matcher"

isMatchVeto(thing) == isSpecialMember(thing.id)

\* new Concat(definitions), before _init
NewConcat(definitions) ==
    [type |-> "Concat", definitions |-> definitions,
     consumeWhiteSpaceBetweenTokens |-> JBool(TRUE),
     skipGaps |-> JBool(FALSE), lazy |-> JBool(FALSE),
     matchSteps |-> <<>>, error |-> "", id |-> <<>>]

\* this[stepName] = def, for a key that begins with "$"
CopyConfig(c, stepName, def) ==
    CASE stepName = Dollar("consumeWhiteSpaceBetweenTokens") ->
            [c EXCEPT !.consumeWhiteSpaceBetweenTokens = def.v]
      [] stepName = Dollar("skipGaps") -> [c EXCEPT !.skipGaps = def.v]
      [] stepName = Dollar("lazy") -> [c EXCEPT !.lazy = def.v]
      [] OTHER -> c

\* get $id()
ConcatId(c) ==
    IF HasKey(c.definitions, Dollar("id"))
    THEN Lookup(c.definitions, Dollar("id")).v
    ELSE <<"Concat", [i \in 1..Len(c.matchSteps) |-> c.matchSteps[i].id]>>

RECURSIVE ConcatOf(_), ConcatInitFrom(_, _), toMatchingLogic(_)

\* The function step a function definition becomes.
FunctionStep(stepName, def) ==
    IF isSpecialMember(stepName)
    THEN MatchVeto(stepName, def)
    ELSE ContextComputation(stepName, def)

\* The body of _init's loop for the keys from the i-th on.
ConcatInitFrom(c, i) ==
    IF i > Len(c.definitions) \/ c.error # "" THEN c
    ELSE LET stepName == c.definitions[i].key
             def == c.definitions[i].def
         IN  IF stepName \in methodsOnEveryMatchingLogic
             THEN ConcatInitFrom(c, i + 1)
             ELSE IF def.d = "value" /\ def.v.t \in {"undefined", "null"}
             THEN [c EXCEPT !.error = "Invalid concatenation"]
             ELSE IF charAt0(stepName) = "$"
             THEN ConcatInitFrom(CopyConfig(c, stepName, def), i + 1)
             ELSE IF def.d = "function"
             THEN IF def.length = 0 /\ stepName # Special("init")
                  THEN [c EXCEPT !.error = "No arg function"]
                  ELSE ConcatInitFrom(
                         [c EXCEPT !.matchSteps =
                             Append(@, FunctionStep(stepName, def))], i + 1)
             ELSE LET m == toMatchingLogic(def)
                      named == NamedMatcher(stepName,
                                 IF c.skipGaps = JBool(TRUE)
                                 THEN Break(m, TRUE) ELSE m)
                  IN  IF m.type = "Concat" /\ m.error # ""
                      THEN [c EXCEPT !.error = m.error]
                      ELSE ConcatInitFrom(
                             [c EXCEPT !.matchSteps = Append(@, named)], i + 1)

\* _init(): the steps, then the id the getter computes from them.
ConcatInit(c) ==
    LET inited == ConcatInitFrom(c, 1)
    IN  [inited EXCEPT !.id = ConcatId(inited)]

\* Concat.of(definitions)
ConcatOf(definitions) ==
    IF HasKey(definitions, Dollar("lazy"))
         /\ Lookup(definitions, Dollar("lazy")) = DValue(JBool(TRUE))
    THEN NewConcat(definitions)
    ELSE ConcatInit(NewConcat(definitions))

toMatchingLogic(o) ==
    CASE o.d = "string" -> IF o.s = <<>> THEN NoMatcher ELSE Literal(o.s)
      [] o.d = "regex" -> Regex(o.chars)
      [] o.d = "matcher" -> o.m
      [] o.d = "object" -> ConcatOf(o.defs)
      [] OTHER -> NoMatcher

(***************************************************************************)
(* Function steps. A veto or computation is one of a few functions of the  *)
(* context object it is handed.                                            *)
(***************************************************************************)
\* ctx => ret
FnConst(ret) == [f |-> "const", ret |-> ret]
\* ctx => ctx[key] !== undefined
FnBound(key) == [f |-> "bound", key |-> key]
\* ctx => ctx[key] !== s
FnNot(key, s) == [f |-> "not", key |-> key, s |-> s]

ApplyFn(fn, ctx) ==
    CASE fn.f = "const" -> fn.ret
      [] fn.f = "bound" -> JBool(fn.key \in DOMAIN ctx)
      [] fn.f = "not" ->
            JBool(~(fn.key \in DOMAIN ctx /\ ctx[fn.key] = JStr(fn.s)))

RECURSIVE ThingValue(_)

\* valuesFromThings of PatternMatch.ts: the values of the slots that are
\* not special, by name.
valuesFromThings(things) ==
    [n \in {m \in ThingNames(things) : ~isSpecialMember(m)} |->
        ThingValue(ThingNamed(things, n))]

\* TreePatternMatch.submatches()
submatches(match) == valuesFromThings(match.thingsInside)

\* The value getter of ScalarThing, NestedThing and ComputedThing.
ThingValue(p) ==
    CASE isScalarThing(p) -> p.originalValue
      [] isNestedThing(p) -> [t |-> "object", props |-> submatches(p.match)]
      [] isComputedThing(p) -> p.value

\* The properties the constructor of TreePatternMatch defines: a getter for
\* each thing whose name is not special, returning the match of a nested
\* thing and the value of any other.
TreeGetters(things) ==
    [n \in {m \in ThingNames(things) : ~isSpecialMember(m)} |->
        IF isNestedThing(ThingNamed(things, n))
        THEN ThingNamed(things, n).match
        ELSE ThingValue(ThingNamed(things, n))]

RECURSIVE justTheData(_)
\* justTheData(match): of a tree match, the data of the enumerable
\* properties whose names begin with neither "_" nor "$" (the getters; the
\* fields of a match all begin with "$"); a string, or an array of strings,
\* as it is.
justTheData(match) ==
    IF "kind" \in DOMAIN match /\ match.kind = "tree"
    THEN [n \in {m \in DOMAIN TreeGetters(match.thingsInside) :
                    charAt0(m) \notin {"_", "$"}} |->
            justTheData(TreeGetters(match.thingsInside)[n])]
    ELSE match

\* PatternMatch.matchedStructure()
matchedStructure(match) == justTheData(match)

\* Concat.valuesFromThings: the values of all the things so far, by name.
ConcatValuesFromThings(things) ==
    [n \in ThingNames(things) |-> ThingValue(ThingNamed(things, n))]

(***************************************************************************)
(* matchPrefix.                                                            *)
(***************************************************************************)
\* Literal.matchPrefix
LiteralMatchPrefix(m, input, is) ==
    IF Peek(input, is, Len(m.literal)) = m.literal
    THEN matchPrefixSuccess(
            TerminalPatternMatch(m.id, m.literal, is, JStr(m.literal)), <<>>)
    ELSE MatchFailureReport(m.id, is, "Did not match literal", <<>>)

RECURSIVE RegexEnd(_, _, _)
\* The end of the longest run of characters of chars from is.
RegexEnd(chars, input, is) ==
    IF ~Exhausted(input, is) /\ input[is + 1] \in chars
    THEN RegexEnd(chars, input, is + 1)
    ELSE is

\* Regex.matchPrefix
RegexMatchPrefix(m, input, is) ==
    LET matched == SubSeq(input, is + 1, RegexEnd(m.chars, input, is))
    IN  IF matched # <<>>
        THEN matchPrefixSuccess(
                TerminalPatternMatch(m.id, matched, is, JStr(matched)), <<>>)
        ELSE MatchFailureReport(m.id, is, "Did not match regex", <<>>)

\* new Repetition(o, min, sep); Rep, Rep1, RepSep and Rep1Sep below.
Repetition(o, min, sep) ==
    [type |-> "Rep", matcher |-> toMatchingLogic(o), min |-> min,
     sepMatcher |-> IF sep.d = "value" THEN NoMatcher ELSE toMatchingLogic(sep),
     consumeWhiteSpaceBetweenTokens |-> JBool(TRUE),
     id |-> <<"Rep", min>>]

NoSep == DValue(JUndefined)
Rep(o) == Repetition(o, 0, NoSep)
Rep1(o) == Repetition(o, 1, NoSep)
RepSep(o, sep) == Repetition(o, 0, sep)
Rep1Sep(o, sep) == Repetition(o, 1, sep)

RECURSIVE MatchPrefix(_, _, _), ConcatSteps(_, _, _, _, _), RepLoop(_, _, _)

\* ConcatStepFailure reporting the offset the failing step was tried at.
ConcatStepFailureAtCurrent(c, initialInputState, currentInputState, step, calls) ==
    MatchFailureReport(c.id, currentInputState,
        <<"Failed at step", step.name>>, calls)

\* The failure Concat.matchPrefix returns when a matcher step fails.
ConcatStepFailure(c, initialInputState, currentInputState, step, calls) ==
    MatchFailureReport(c.id, initialInputState,
        <<"Failed at step", step.name>>, calls)

\* The failure Concat.matchPrefix returns when a veto fires.
ConcatVetoFailure(c, initialInputState, currentInputState, step, calls) ==
    MatchFailureReport(c.id, initialInputState,
        <<"Match vetoed by", step.id>>, calls)

\* VetoFires on every falsy return value.
VetoFiresOnFalsy(ret) == ~Truthy(ret)

\* step.veto(...) === false
VetoFires(ret) == ret = JBool(FALSE)

\* AppendSkipped with the skipped whitespace left out of matched.
AppendSkippedDropped(matched, skipped) == matched

\* matched += eat.skipped
AppendSkipped(matched, skipped) == matched \o skipped

\* The thing a successful matcher step pushes.
ThingOf(step, report) ==
    IF isTreePatternMatch(report)
    THEN NestedThing(step.id, report)
    ELSE ScalarThing(step.id, report)

\* The loop of Concat.matchPrefix from the i-th step on. acc holds
\* currentInputState, things, matched and the calls made to function steps
\* (each with the context object it was handed and what it returned).
ConcatSteps(c, input, initialInputState, i, acc) ==
    IF i > Len(c.matchSteps)
    THEN matchPrefixSuccess(
            TreePatternMatch(c.id, acc.matched, initialInputState, acc.things),
            acc.calls)
    ELSE LET step == c.matchSteps[i] IN
      IF isMatcher(step)
      THEN LET eat == ReadyToMatch(input, acc.state,
                          Truthy(c.consumeWhiteSpaceBetweenTokens))
               reportResult == MatchPrefix(step.ml, input, eat.state)
           IN  IF isSuccessfulMatch(reportResult)
               THEN LET report == reportResult.match IN
                    ConcatSteps(c, input, initialInputState, i + 1,
                      [state |-> Consume(eat.state, report.matched),
                       matched |-> AppendSkipped(acc.matched, eat.skipped)
                                      \o report.matched,
                       things |-> Append(acc.things, ThingOf(step, report)),
                       calls |-> acc.calls \o reportResult.calls])
               ELSE IF reportResult.thrown THEN reportResult
               ELSE ConcatStepFailure(c, initialInputState, eat.state, step,
                        acc.calls \o reportResult.calls)
      ELSE IF isMatchVeto(step)
      THEN LET ctx == ConcatValuesFromThings(acc.things)
               ret == ApplyFn(step.veto, ctx)
               call == [step |-> step.id, kind |-> "veto", ctx |-> ctx,
                        ret |-> ret]
           IN  IF VetoFires(ret)
               THEN ConcatVetoFailure(c, initialInputState, acc.state, step,
                        Append(acc.calls, call))
               ELSE ConcatSteps(c, input, initialInputState, i + 1,
                        [acc EXCEPT !.calls = Append(@, call)])
      ELSE LET ctx == ConcatValuesFromThings(acc.things)
               ret == ApplyFn(step.compute, ctx)
               call == [step |-> step.id, kind |-> "compute", ctx |-> ctx,
                        ret |-> ret]
           IN  ConcatSteps(c, input, initialInputState, i + 1,
                 [acc EXCEPT !.things = Append(@, ComputedThing(step.id, ret)),
                             !.calls = Append(@, call)])

\* Concat.matchPrefix
ConcatMatchPrefix(c, input, initialInputState) ==
    ConcatSteps(c, input, initialInputState, 1,
        [state |-> initialInputState, matched |-> <<>>, things |-> <<>>,
         calls |-> <<>>])

\* typeof m.$value === "object" ? m : m.$value
RepValue(m) == IF TypeofObject(m.value) THEN m ELSE m.value

\* The while loop of Repetition.matchPrefix. acc holds currentInputState,
\* matches, matched and whether the degenerate-grammar error was thrown.
RepLoop(r, input, acc) ==
    IF Exhausted(input, acc.state) THEN acc
    ELSE
      LET eat == ReadyToMatch(input, acc.state,
                     Truthy(r.consumeWhiteSpaceBetweenTokens))
          result == MatchPrefix(r.matcher, input, eat.state)
          ready == [acc EXCEPT !.state = eat.state,
                               !.matched = @ \o eat.skipped]
      IN
      IF ~isSuccessfulMatch(result)
      THEN IF result.thrown THEN [ready EXCEPT !.thrown = TRUE] ELSE ready
      ELSE IF result.match.matched = <<>>
      THEN [ready EXCEPT !.thrown = TRUE]
      ELSE
        LET match == result.match
            one == [ready EXCEPT
                      !.state = Consume(eat.state, match.matched),
                      !.matches = Append(@, match),
                      !.matched = @ \o match.matched]
        IN
        IF IsSet(r.sepMatcher)
        THEN LET eaten == ReadyToMatch(input, one.state,
                              Truthy(r.consumeWhiteSpaceBetweenTokens))
                 sepMatchResult == MatchPrefix(r.sepMatcher, input, eaten.state)
                 sepReady == [one EXCEPT !.state = eaten.state,
                                         !.matched = @ \o eaten.skipped]
             IN  IF isSuccessfulMatch(sepMatchResult)
                 THEN RepLoop(r, input,
                        [sepReady EXCEPT
                           !.state = Consume(eaten.state,
                                             sepMatchResult.match.matched),
                           !.matched = @ \o sepMatchResult.match.matched])
                 ELSE IF sepMatchResult.thrown
                 THEN [sepReady EXCEPT !.thrown = TRUE]
                 ELSE sepReady
        ELSE RepLoop(r, input, one)

\* EnoughMatches that asks for more than min matches.
EnoughMatchesOverMin(count, min) == count > min

\* matches.length >= this.min
EnoughMatches(count, min) == count >= min

\* Repetition.matchPrefix
RepMatchPrefix(r, input, is) ==
    LET done == RepLoop(r, input,
                   [state |-> is, matches |-> <<>>, matched |-> <<>>,
                    thrown |-> FALSE])
        values == [i \in 1..Len(done.matches) |-> RepValue(done.matches[i])]
    IN  IF done.thrown
        THEN Thrown(r.id, "within rep matched the empty string")
        ELSE IF EnoughMatches(Len(done.matches), r.min)
        THEN matchPrefixSuccess(
                TerminalPatternMatch(r.id, done.matched, is, JArr(values)),
                <<>>)
        ELSE MatchFailureReport(r.id, is, "", <<>>)

RECURSIVE BreakScan(_, _, _)
\* The first input state from is on at which breakOn matches or throws; the
\* exhausted one when there is none. breakOn is not tried at the end of
\* input.
BreakScan(breakOn, input, is) ==
    IF Exhausted(input, is) THEN is
    ELSE IF MatchPrefix(breakOn, input, is).ok
              \/ MatchPrefix(breakOn, input, is).thrown
    THEN is
    ELSE BreakScan(breakOn, input, is + 1)

\* BreakMatched that takes the terminator's text whatever consume says.
BreakMatchedWithTerminator(consume, skipped, terminator) == skipped \o terminator

\* The text a Break that found its terminator consumes: the text before the
\* terminator, and the terminator's own only when consume is set.
BreakMatched(consume, skipped, terminator) ==
    IF consume THEN skipped \o terminator ELSE skipped

\* What Break returns once the scan stopped at the input state at, where
\* breakOn returned mets (a failure when the input ran out first). A
\* consuming Break binds the terminator's value, any other the text skipped.
BreakResult(b, input, is, at, mets) ==
    LET skipped == SubSeq(input, is + 1, at) IN
    IF mets.thrown THEN mets
    ELSE IF mets.ok
    THEN matchPrefixSuccess(
            TerminalPatternMatch(b.id,
                BreakMatched(b.consume, skipped, mets.match.matched), is,
                IF b.consume THEN mets.match.value ELSE JStr(skipped)),
            IF b.consume THEN mets.calls ELSE <<>>)
    ELSE matchPrefixSuccess(
            TerminalPatternMatch(b.id, skipped, is, JStr(skipped)), <<>>)

\* Break.matchPrefix
BreakMatchPrefix(b, input, is) ==
    LET at == BreakScan(b.breakOn, input, is) IN
    BreakResult(b, input, is, at,
        IF Exhausted(input, at)
        THEN MatchFailureReport(b.breakOn.id, at, "", <<>>)
        ELSE MatchPrefix(b.breakOn, input, at))

MatchPrefix(m, input, is) ==
    CASE m.type = "Literal" -> LiteralMatchPrefix(m, input, is)
      [] m.type = "Regex" -> RegexMatchPrefix(m, input, is)
      [] m.type = "Concat" -> ConcatMatchPrefix(m, input, is)
      [] m.type = "Rep" -> RepMatchPrefix(m, input, is)
      [] m.type = "Break" -> BreakMatchPrefix(m, input, is)

\* takeUntil(what) of Skip.ts
takeUntil(what) == Break(toMatchingLogic(what), FALSE)

\* yadaYadaThen(a) of Skip.ts
yadaYadaThen(a) == Break(toMatchingLogic(a), TRUE)

(***************************************************************************)
(* Microgrammar, MatchingMachine and LazyMatcher.                          *)
(***************************************************************************)
\* Microgrammar.fromDefinitions(definitions): the microgrammar's matcher.
fromDefinitions(definitions) == ConcatOf(definitions)

\* The tokens of a template string: literal text, a slot ${name} and the gap
\* marker.
TLit(s) == [tok |-> "literal", s |-> s]
TSlot(name) == [tok |-> "slot", name |-> name]
TGap == [tok |-> "gap"]

\* Whether the i-th token of a template is an anchor: a literal, or a slot
\* with a matcher among the components.
IsAnchor(spec, components, i) ==
    /\ i \in 1..Len(spec)
    /\ \/ spec[i].tok = "literal"
       \/ spec[i].tok = "slot" /\ HasKey(components, Nm(spec[i].name))

\* The matcher of an anchor.
Anchor(spec, components, i) ==
    IF spec[i].tok = "literal" THEN Literal(spec[i].s)
    ELSE toMatchingLogic(Lookup(components, Nm(spec[i].name)))

\* UpToAnchor that takes the anchor's text as well.
UpToAnchorAndOver(anchor) == Break(anchor, TRUE)

\* The placeholder for what is not given a matcher: anything up to the next
\* anchor, a Break(nextAnchor).
UpToAnchor(anchor) == Break(anchor, FALSE)

\* The names of the steps of the literals and of the gap markers of a
\* template, by the place of the token.
LiteralName(i) ==
    Special(<<"literal1", "literal2", "literal3", "literal4">>[i])

\* SkipName without the leading "_".
SkipNameNotSpecial(i) == Nm(<<"skip1", "skip2", "skip3", "skip4">>[i])

SkipName(i) == Special(<<"skip1", "skip2", "skip3", "skip4">>[i])

\* The step the i-th token of a template becomes. The step of a literal or
\* of a gap marker has a special name, so it is bound to no slot.
TokenDef(spec, components, i) ==
    CASE spec[i].tok = "literal" ->
            Def(LiteralName(i), DString(spec[i].s))
      [] spec[i].tok = "gap" ->
            Def(SkipName(i),
                DMatcher(UpToAnchor(Anchor(spec, components, i + 1))))
      [] IsAnchor(spec, components, i) ->
            Def(Nm(spec[i].name), Lookup(components, Nm(spec[i].name)))
      [] OTHER ->
            Def(Nm(spec[i].name),
                DMatcher(UpToAnchor(Anchor(spec, components, i + 1))))

\* Microgrammar.fromString(spec, components): the microgrammar's matcher,
\* a Concat with one step for each token of the template, in order.
fromString(spec, components) ==
    ConcatOf([i \in 1..Len(spec) |-> TokenDef(spec, components, i)])

\* The predicates handed to findMatches as stopAfterMatch.
StopNever == [p |-> "never"]
StopAlways == [p |-> "always"]
StopAtOffset(n) == [p |-> "offset", n |-> n]
StopOnLength(n) == [p |-> "length", n |-> n]

\* stopAfterMatch(pm)
StopAfterMatch(stop, pm) ==
    CASE stop.p = "never" -> FALSE
      [] stop.p = "always" -> TRUE
      [] stop.p = "offset" -> pm.offset >= stop.n
      [] stop.p = "length" -> Len(pm.matched) >= stop.n

\* LazyOnMatch asking stopAfterMatch before it keeps the match.
LazyOnMatchStopFirst(thisMatcher, stopAfterMatch, matches, pm) ==
    IF StopAfterMatch(stopAfterMatch, pm)
    THEN [matches |-> matches, ret |-> NoMatcher]
    ELSE [matches |-> Append(matches, pm), ret |-> thisMatcher]

\* LazyMatcher.onMatch(pm) on a machine whose matches are matches:
\* the matches afterwards and the matcher returned.
LazyOnMatch(thisMatcher, stopAfterMatch, matches, pm) ==
    [matches |-> Append(matches, pm),
     ret |-> IF StopAfterMatch(stopAfterMatch, pm)
             THEN NoMatcher ELSE thisMatcher]

\* (this.matcher as any).$consumeWhiteSpaceBetweenTokens === true
ConsumeWhiteSpaceFlag(thisMatcher, currentMatcher) ==
    thisMatcher.consumeWhiteSpaceBetweenTokens = JBool(TRUE)

\* isSuccessfulMatch(tryMatch) && tryMatch.$matched !== ""
AcceptedMatch(tryMatch) ==
    isSuccessfulMatch(tryMatch) /\ tryMatch.match.matched # <<>>

\* (match as any).$name = match.$matcherId
Enriched(match) == [match EXCEPT !.name = match.matcherId]

\* AfterMatch with the cursor moved on by one character only.
AfterMatchOneChar(currentInputState, match) == Advance(currentInputState)

\* The input state after an accepted match.
AfterMatch(currentInputState, match) ==
    Consume(currentInputState, match.matched)

\* AfterNoMatch that leaves the cursor where it is.
AfterNoMatchStays(input, currentInputState) == currentInputState

\* The input state after an iteration that accepted no match.
AfterNoMatch(input, currentInputState) ==
    IF ~Exhausted(input, currentInputState)
    THEN Advance(currentInputState)
    ELSE currentInputState

RECURSIVE LazyConsume(_, _, _, _, _, _)
\* consume(input) of a LazyMatcher (which has no observer), from the loop
\* test on: the matches it has collected when the loop ends.
LazyConsume(thisMatcher, stopAfterMatch, input, currentMatcher, currentInputState, matches) ==
    IF ~(IsSet(currentMatcher) /\ ~Exhausted(input, currentInputState))
    THEN matches
    ELSE LET ready == ReadyToMatch(input, currentInputState,
                         ConsumeWhiteSpaceFlag(thisMatcher, currentMatcher)).state
             tryMatch == MatchPrefix(currentMatcher, input, ready)
         IN  IF AcceptedMatch(tryMatch)
             THEN LET match == Enriched(tryMatch.match)
                      on == LazyOnMatch(thisMatcher, stopAfterMatch,
                                        matches, match)
                  IN  LazyConsume(thisMatcher, stopAfterMatch, input, on.ret,
                                  AfterMatch(ready, match), on.matches)
             ELSE LazyConsume(thisMatcher, stopAfterMatch, input,
                              currentMatcher, AfterNoMatch(input, ready),
                              matches)

\* Microgrammar.findMatches(input, parseContext, l, stopAfterMatch)
findMatches(matcher, input, stopAfterMatch) ==
    LazyConsume(matcher, stopAfterMatch, input, matcher, 0, <<>>)

\* Microgrammar.firstMatch(input)
firstMatch(matcher, input) ==
    LET found == findMatches(matcher, input, StopAlways)
    IN  IF Len(found) > 0 THEN found[1] ELSE NoMatch

\* NothingLeft that lets any text remain.
NothingLeftOrAnything(input, is) == TRUE

\* Whether nothing of the input is left from input state is on but
\* whitespace.
NothingLeft(input, is) == Exhausted(input, SkipWhitespace(input, is))

\* What exactMatch makes of result, the outcome of matchPrefix at the start
\* of the input: the match when nothing is left after it, a failure report
\* of where the match ended and what remained when something is.
ExactResult(matcher, input, result) ==
    IF ~isSuccessfulMatch(result) THEN result
    ELSE IF NothingLeft(input, Consume(0, result.match.matched)) THEN result
    ELSE MatchFailureReport(matcher.id, Consume(0, result.match.matched),
            <<"Not all input was consumed",
              SubSeq(input, Len(result.match.matched) + 1, Len(input))>>,
            result.calls)

\* exactMatch(matcher, input) of internal/ExactMatch
exactMatch(matcher, input) ==
    ExactResult(matcher, input, MatchPrefix(matcher, input, 0))

(***************************************************************************)
(* ChangeSet: the original text and the edits made to it, one per match.   *)
(***************************************************************************)
\* new ChangeSet(content)
NewChangeSet(content) == [initialContent |-> content, changes |-> <<>>]

\* changeSet.change(match, to): the edit of match is replaced or added.
Change(cs, match, to) ==
    IF \E i \in 1..Len(cs.changes) : cs.changes[i].match = match
    THEN [cs EXCEPT !.changes =
            [i \in 1..Len(cs.changes) |->
                IF cs.changes[i].match = match
                THEN [match |-> match, to |-> to]
                ELSE cs.changes[i]]]
    ELSE [cs EXCEPT !.changes = Append(@, [match |-> match, to |-> to])]

ObjectObject ==
    <<"[", "o", "b", "j", "e", "c", "t", " ", "O", "b", "j", "e", "c", "t",
      "]">>

RECURSIVE ToText(_), JoinFrom(_, _)
\* items.join(",") from the i-th item on
JoinFrom(items, i) ==
    IF i > Len(items) THEN <<>>
    ELSE IF i = Len(items) THEN ToText(items[i])
    ELSE ToText(items[i]) \o <<",">> \o JoinFrom(items, i + 1)

\* The text a value becomes when it is concatenated into a string.
ToText(v) ==
    IF "t" \notin DOMAIN v THEN ObjectObject
    ELSE CASE v.t = "string" -> v.s
           [] v.t = "array" -> JoinFrom(v.items, 1)
           [] v.t = "undefined" ->
                <<"u", "n", "d", "e", "f", "i", "n", "e", "d">>
           [] OTHER -> ObjectObject

ChangeStart(c) == c.match.offset
ChangeEnd(c) == c.match.offset + Len(c.match.matched)

\* Two edits overlap: applying both is a usage error.
Overlapping(cs) ==
    \E i, j \in 1..Len(cs.changes) :
        /\ i # j
        /\ ChangeStart(cs.changes[i]) < ChangeEnd(cs.changes[j])
        /\ ChangeStart(cs.changes[j]) < ChangeEnd(cs.changes[i])

RECURSIVE ApplyFrom(_, _)
\* The text from offset from on, with the edits that start there or later
\* applied left to right.
ApplyFrom(cs, from) ==
    LET later == {i \in 1..Len(cs.changes) :
                     ChangeStart(cs.changes[i]) >= from}
    IN  IF later = {}
        THEN SubSeq(cs.initialContent, from + 1, Len(cs.initialContent))
        ELSE LET i == CHOOSE k \in later :
                         \A l \in later : ChangeStart(cs.changes[k])
                                            <= ChangeStart(cs.changes[l])
                 c == cs.changes[i]
             IN  SubSeq(cs.initialContent, from + 1, ChangeStart(c))
                    \o ToText(c.to)
                    \o ApplyFrom([cs EXCEPT !.changes =
                                    SelectSeq(@, LAMBDA d : d # c)],
                                 ChangeEnd(c))

\* changeSet.updated()
Updated(cs) ==
    IF Overlapping(cs) THEN <<"overlapping changes">> ELSE ApplyFrom(cs, 0)

(***************************************************************************)
(* MicrogrammarUpdates. An overlay object is its own properties (a data    *)
(* property holds a value; an accessor property is the getter and setter   *)
(* defined for one thing p with its privateProperty) and its $invalidated  *)
(* mark. The objects of one overlay are named by the path of slot names    *)
(* that leads to them from the root, <<>>. up is the state the calls work  *)
(* on: the objects, the change set and whether an Error was thrown.        *)
(***************************************************************************)
DataProperty(v) == [kind |-> "data", value |-> v]

AccessorProperty(p) ==
    [kind |-> "accessor", p |-> p, privateProperty |-> PrivateProperty(p.name)]

NewObject == [props |-> <<>>, invalidated |-> FALSE]

HasOwn(obj, name) == \E i \in 1..Len(obj.props) : obj.props[i].name = name

Own(obj, name) ==
    obj.props[CHOOSE i \in 1..Len(obj.props) : obj.props[i].name = name].desc

\* obj with its own property name set to desc (added last when new)
WithOwn(obj, name, desc) ==
    IF HasOwn(obj, name)
    THEN [obj EXCEPT !.props =
            [i \in 1..Len(obj.props) |->
                IF obj.props[i].name = name
                THEN [name |-> name, desc |-> desc] ELSE obj.props[i]]]
    ELSE [obj EXCEPT !.props = Append(@, [name |-> name, desc |-> desc])]

RECURSIVE GetProperty(_, _, _)
\* target[name]
GetProperty(heap, target, name) ==
    IF ~HasOwn(heap[target], name) THEN JUndefined
    ELSE LET desc == Own(heap[target], name) IN
         IF desc.kind = "data" THEN desc.value
         ELSE IF isComputedThing(desc.p) THEN desc.p.value
         ELSE IF heap[target].invalidated THEN JUndefined
         ELSE GetProperty(heap, target, desc.privateProperty)

RECURSIVE InvalidateFrom(_, _, _)
\* The loop over Object.getOwnPropertyNames(target) from the i-th name on:
\* target[prop].$invalidated = true where typeof target[prop] is "object".
\* The mark lands on an overlay object, or on an array, where nothing reads
\* it; on null the assignment throws a TypeError.
InvalidateFrom(up, target, i) ==
    IF i > Len(up.heap[target].props) \/ up.threw THEN up
    ELSE InvalidateFrom(
            LET v == GetProperty(up.heap, target, up.heap[target].props[i].name)
            IN  IF ~TypeofObject(v) THEN up
                ELSE IF v = JNull THEN [up EXCEPT !.threw = TRUE]
                ELSE IF "id" \in DOMAIN v
                THEN [up EXCEPT !.heap[v.id].invalidated = TRUE]
                ELSE up,
            target, i + 1)

\* isNestedThing(p) && p.value !== {}
InvalidatesChildren(p) == isNestedThing(p)

\* ComputedSetter that returns without an error.
ComputedSetterSilent(up) == up

\* The setter of a computed slot: throw new Error(...)
ComputedSetter(up) == [up EXCEPT !.threw = TRUE]

RECURSIVE SetProperty(_, _, _, _)
\* target[name] = newValue
SetProperty(up, target, name, newValue) ==
    IF up.threw THEN up
    ELSE IF ~HasOwn(up.heap[target], name)
            \/ Own(up.heap[target], name).kind = "data"
    THEN [up EXCEPT !.heap[target] = WithOwn(@, name, DataProperty(newValue))]
    ELSE LET desc == Own(up.heap[target], name) IN
         IF isComputedThing(desc.p) THEN ComputedSetter(up)
         ELSE IF up.heap[target].invalidated THEN [up EXCEPT !.threw = TRUE]
         ELSE LET stored == SetProperty(up, target, desc.privateProperty,
                                        newValue)
                  changed == [stored EXCEPT
                                !.cs = Change(@, desc.p.match, newValue)]
              IN  IF stored.threw THEN stored
                  ELSE IF InvalidatesChildren(desc.p)
                  THEN InvalidateFrom(changed, target, 1)
                  ELSE changed

\* The overlay object built for the nested slot name of target.
ChildOf(target, name) == Append(target, name)

RECURSIVE AddMatchesAsProperties(_, _, _), AddThingsFrom(_, _, _, _)

\* The body of addMatchesAsProperties's loop for the things of match from
\* the i-th on.
AddThingsFrom(up, target, match, i) ==
    IF i > Len(match.thingsInside) \/ up.threw THEN up
    ELSE LET p == match.thingsInside[i] IN
      IF isNestedThing(p)
      THEN LET child == ChildOf(target, p.name)
               made == [up EXCEPT !.heap = (child :> NewObject) @@ @]
               filled == AddMatchesAsProperties(made, child, p.match)
               stored == SetProperty(filled, target, PrivateProperty(p.name),
                                     JObj(child))
           IN  AddThingsFrom(
                  [stored EXCEPT !.heap[target] =
                      WithOwn(@, p.name, AccessorProperty(p))],
                  target, match, i + 1)
      ELSE IF isScalarThing(p)
      THEN LET stored == SetProperty(up, target, PrivateProperty(p.name),
                                     ThingValue(p))
           IN  AddThingsFrom(
                  [stored EXCEPT !.heap[target] =
                      WithOwn(@, p.name, AccessorProperty(p))],
                  target, match, i + 1)
      ELSE AddThingsFrom(
              [up EXCEPT !.heap[target] =
                  WithOwn(@, p.name, AccessorProperty(p))],
              target, match, i + 1)

\* addMatchesAsProperties(target, cs, match)
AddMatchesAsProperties(up, target, match) ==
    IF isTreePatternMatch(match)
    THEN AddThingsFrom(up, target, match, 1)
    ELSE up

Root == <<>>

\* updatableMatch(match, content): the overlay, its root object being Root.
updatableMatch(match, content) ==
    AddMatchesAsProperties(
        [heap |-> (Root :> NewObject), cs |-> NewChangeSet(content),
         threw |-> FALSE, match |-> match],
        Root, match)

\* replaceAll(newValue)
replaceAll(up, newValue) == [up EXCEPT !.cs = Change(@, up.match, newValue)]

\* newContent()
newContent(up) == Updated(up.cs)

(***************************************************************************)
(* The grammars and machines explored.                                     *)
(***************************************************************************)
A == <<"a">>
B == <<"b">>

\* The six values a veto may return that are not false.
NotFalse ==
    <<JUndefined, JNull, JNum(0), JStr(<<>>), JBool(TRUE), JObj(<<>>)>>

Definitions == <<
    \* 1: { x: "a" }
    <<Def(Nm("x"), DString(A))>>,
    \* 2: { x: "a", y: "b" }
    <<Def(Nm("x"), DString(A)), Def(Nm("y"), DString(B))>>,
    \* 3: { x: /a+/, _short: ctx => ctx.x !== "aa", y: "b" }
    <<Def(Nm("x"), DRegex({"a"})),
      Def(Special("short"), DFunction(1, FnNot(Nm("x"), <<"a", "a">>))),
      Def(Nm("y"), DString(B))>>,
    \* 4: { first: { name: /a+/ }, second: { name: /b+/ } }
    <<Def(Nm("first"), DObject(<<Def(Nm("name"), DRegex({"a"}))>>)),
      Def(Nm("second"), DObject(<<Def(Nm("name"), DRegex({"b"}))>>))>>,
    \* 5: { items: new Rep1Sep("a", "b") }
    <<Def(Nm("items"), DMatcher(Rep1Sep(DString(A), DString(B))))>>,
    \* 6: { $consumeWhiteSpaceBetweenTokens: false, x: "a", y: /b+/ }
    <<Def(Dollar("consumeWhiteSpaceBetweenTokens"), DValue(JBool(FALSE))),
      Def(Nm("x"), DString(A)), Def(Nm("y"), DRegex({"b"}))>>,
    \* 7: { _x: "a", x: "b" }
    <<Def(Special("x"), DString(A)), Def(Nm("x"), DString(B))>>,
    \* 8: { x: "a", _x: "b" }
    <<Def(Nm("x"), DString(A)), Def(Special("x"), DString(B))>>,
    \* 9: { x: "a", _v1: c => undefined, ..., _v6: c => ({}), n: c => c.y
    \*      !== undefined, y: { z: "b" }, _last: c => c.n !== undefined }
    <<Def(Nm("x"), DString(A)),
      Def(Special("v1"), DFunction(1, FnConst(NotFalse[1]))),
      Def(Special("v2"), DFunction(1, FnConst(NotFalse[2]))),
      Def(Special("v3"), DFunction(1, FnConst(NotFalse[3]))),
      Def(Special("v4"), DFunction(1, FnConst(NotFalse[4]))),
      Def(Special("v5"), DFunction(1, FnConst(NotFalse[5]))),
      Def(Special("v6"), DFunction(1, FnConst(NotFalse[6]))),
      Def(Nm("n"), DFunction(1, FnBound(Nm("y")))),
      Def(Nm("y"), DObject(<<Def(Nm("z"), DString(B))>>)),
      Def(Special("last"), DFunction(1, FnBound(Nm("n"))))>>,
    \* 10: { x: /a+/, rest: new Rep(/b+/), _never: c => c.x !== undefined }
    <<Def(Nm("x"), DRegex({"a"})),
      Def(Nm("rest"), DMatcher(Rep(DRegex({"b"})))),
      Def(Special("never"), DFunction(1, FnNot(Nm("x"), <<>>)))>>,
    \* 11: { rest: new Rep("b") }
    <<Def(Nm("rest"), DMatcher(Rep(DString(B))))>>
    >>

\* The predicates findMatches is called with.
StopPredicates == <<StopNever, StopAlways, StopAtOffset(1), StopOnLength(2)>>

\* new LazyMatcher(matcher, stopAfterMatch), as findMatches builds it.
LazyMatcher(ml, stopAfterMatch) ==
    [class |-> "LazyMatcher", matcher |-> ml, observer |-> NoMatcher,
     stopAfterMatch |-> stopAfterMatch]

\* A MatchingMachine whose onMatch a subclass overrides: constructor.
MatchingMachine(initialMatcher, o) ==
    [class |-> "MatchingMachine", matcher |-> toMatchingLogic(initialMatcher),
     observer |-> toMatchingLogic(o), stopAfterMatch |-> StopNever]

\* The observers given to a MatchingMachine; the first is no observer.
Observers == <<DValue(JUndefined), DString(A), DString(B)>>

\* The definitions a MatchingMachine with a subclass's onMatch is built on.
MachineDefinitions == {1, 2, 4, 11}

Machines ==
    {LazyMatcher(fromDefinitions(Definitions[g]), StopPredicates[p]) :
        g \in 1..Len(Definitions), p \in 1..Len(StopPredicates)}
    \cup
    {MatchingMachine(DObject(Definitions[g]), Observers[o]) :
        g \in MachineDefinitions, o \in 1..Len(Observers)}

(***************************************************************************)
(* MatchingMachine.consume as a state machine: one run of consume on one   *)
(* input by one machine. log records, in order, every matchPrefix call of  *)
(* the loop, every onMatch and observeMatch callback with what it          *)
(* returned, and every dropLeft.                                           *)
(***************************************************************************)
VARIABLES
    input,              \* the text consume is called on
    machine,            \* the MatchingMachine: matcher, observer, class
    pc,                 \* where consume is in its loop
    currentMatcher,
    currentInputState,
    previousIs,
    tryMatch,           \* the result of the iteration's matchPrefix call
    matches,            \* LazyMatcher.matches
    log,
    left,               \* the offset last handed to stateManager.dropLeft
    overlay,            \* the update overlay of one match: objects, changes
    held,               \* the overlay objects the caller has a reference to
    last,               \* the caller's last call on the overlay and its result
    writes              \* how many changes the caller has made

mvars == <<input, machine, pc, currentMatcher, currentInputState, previousIs,
           tryMatch, matches, log, left>>

uvars == <<overlay, held, last, writes>>

vars == <<mvars, uvars>>

\* No overlay has been built.
NoOverlay ==
    [heap |-> <<>>, cs |-> NewChangeSet(<<>>), threw |-> FALSE,
     match |-> NoMatch]

NoCall == [op |-> "none"]

NoResult == [ok |-> FALSE, thrown |-> FALSE, matcherId |-> <<>>,
             offset |-> 0, description |-> "", calls |-> <<>>]

\* The microgrammar consume builds of the observer, which matches what the
\* observer matches.
ObserverGrammar(observer) ==
    fromDefinitions(<<Def(Nm("observer"), DMatcher(observer))>>)

\* MatchingMachine.observeMatch(pm), which no machine here overrides.
observeMatch(thisMatcher, pm) == thisMatcher

\* The matchers the onMatch of a subclass of MatchingMachine returns here:
\* the machine's matcher, as the base class does, nothing, or another
\* matcher, one that does not consume whitespace between tokens.
OnMatchReturns(m) ==
    {m.matcher, NoMatcher, toMatchingLogic(DObject(Definitions[6]))}

MachineInit ==
    /\ input \in Texts
    /\ machine \in Machines
    /\ pc = "loop"
    /\ currentMatcher = machine.matcher
    /\ currentInputState = 0
    /\ previousIs = 0
    /\ tryMatch = NoResult
    /\ matches = <<>>
    /\ log = <<>>
    /\ left = 0
    /\ overlay = NoOverlay
    /\ held = {}
    /\ last = NoCall
    /\ writes = 0

\* while (currentMatcher && !currentInputState.exhausted())
LoopTest == IsSet(currentMatcher) /\ ~Exhausted(input, currentInputState)

\* readyToMatch, previousIs and the matchPrefix call of one iteration.
TryMatch ==
    /\ pc = "loop"
    /\ LoopTest
    /\ LET ready == ReadyToMatch(input, currentInputState,
                       ConsumeWhiteSpaceFlag(machine.matcher,
                                             currentMatcher)).state
           result == MatchPrefix(currentMatcher, input, ready)
       IN  /\ currentInputState' = ready
           /\ previousIs' = ready
           /\ tryMatch' = result
           /\ log' = Append(log, [ev |-> "matchPrefix", offset |-> ready])
           /\ pc' = IF result.thrown THEN "thrown" ELSE "tried"
    /\ UNCHANGED <<input, machine, currentMatcher, matches, left>>
    /\ UNCHANGED uvars

\* The branch of an accepted match, for a LazyMatcher.
LazyMatch ==
    /\ pc = "tried"
    /\ AcceptedMatch(tryMatch)
    /\ machine.class = "LazyMatcher"
    /\ LET match == Enriched(tryMatch.match)
           on == LazyOnMatch(machine.matcher, machine.stopAfterMatch,
                             matches, match)
       IN  /\ matches' = on.matches
           /\ currentMatcher' = on.ret
           /\ currentInputState' = AfterMatch(currentInputState, match)
           /\ log' = Append(log, [ev |-> "onMatch", match |-> match,
                                  ret |-> on.ret])
    /\ pc' = "observe"
    /\ UNCHANGED <<input, machine, previousIs, tryMatch, left>>
    /\ UNCHANGED uvars

\* The branch of an accepted match, for a subclass's onMatch.
MachineMatch ==
    /\ pc = "tried"
    /\ AcceptedMatch(tryMatch)
    /\ machine.class = "MatchingMachine"
    /\ \E ret \in OnMatchReturns(machine) :
         LET match == Enriched(tryMatch.match)
         IN  /\ currentMatcher' = ret
             /\ currentInputState' = AfterMatch(currentInputState, match)
             /\ log' = Append(log, [ev |-> "onMatch", match |-> match,
                                    ret |-> ret])
    /\ pc' = "observe"
    /\ UNCHANGED <<input, machine, previousIs, tryMatch, matches, left>>
    /\ UNCHANGED uvars

\* The else branch: discard the current input character.
Discard ==
    /\ pc = "tried"
    /\ ~AcceptedMatch(tryMatch)
    /\ currentInputState' = AfterNoMatch(input, currentInputState)
    /\ pc' = "observe"
    /\ UNCHANGED <<input, machine, currentMatcher, previousIs, tryMatch,
                   matches, log, left>>
    /\ UNCHANGED uvars

\* if (this.observer) is false
NoObserver ==
    /\ pc = "observe"
    /\ ~IsSet(machine.observer)
    /\ pc' = "drop"
    /\ UNCHANGED <<input, machine, currentMatcher, currentInputState,
                   previousIs, tryMatch, matches, log, left>>
    /\ UNCHANGED uvars

\* ObserveAll that leaves out the first of the hits.
ObserveAllButFirst(thisMatcher, current, hits) ==
    [matcher |-> IF hits = <<>> THEN current
                 ELSE observeMatch(thisMatcher, hits[Len(hits)]),
     events |-> [i \in 1..(Len(hits) - 1) |->
                   [ev |-> "observeMatch", match |-> hits[i + 1],
                    ret |-> observeMatch(thisMatcher, hits[i + 1])]]]

\* for (const m of matches) currentMatcher = this.observeMatch(m): the
\* current matcher afterwards and the callbacks made.
ObserveAll(thisMatcher, current, hits) ==
    [matcher |-> IF hits = <<>> THEN current
                 ELSE observeMatch(thisMatcher, hits[Len(hits)]),
     events |-> [i \in 1..Len(hits) |->
                   [ev |-> "observeMatch", match |-> hits[i],
                    ret |-> observeMatch(thisMatcher, hits[i])]]]

\* The observer's matches in the text the matcher matched, each handed to
\* observeMatch.
ObserveRegion ==
    /\ pc = "observe"
    /\ IsSet(machine.observer)
    /\ isSuccessfulMatch(tryMatch)
    /\ LET after == ObserveAll(machine.matcher, currentMatcher,
                       findMatches(ObserverGrammar(machine.observer),
                                   tryMatch.match.matched, StopNever))
       IN  /\ currentMatcher' = after.matcher
           /\ log' = log \o after.events
    /\ pc' = "drop"
    /\ UNCHANGED <<input, machine, currentInputState, previousIs, tryMatch,
                   matches, left>>
    /\ UNCHANGED uvars

\* if (isSuccessfulMatch(observerMatch)) currentMatcher =
\* this.observeMatch(observerMatch.match)
ObserveOne(thisMatcher, current, observerMatch) ==
    IF isSuccessfulMatch(observerMatch)
    THEN [matcher |-> observeMatch(thisMatcher, observerMatch.match),
          events |-> <<[ev |-> "observeMatch", match |-> observerMatch.match,
                        ret |-> observeMatch(thisMatcher,
                                             observerMatch.match)]>>]
    ELSE [matcher |-> current, events |-> <<>>]

\* The observer tried at the previous input state after a failure.
ObservePrevious ==
    /\ pc = "observe"
    /\ IsSet(machine.observer)
    /\ ~isSuccessfulMatch(tryMatch)
    /\ LET after == ObserveOne(machine.matcher, currentMatcher,
                       MatchPrefix(machine.observer, input, previousIs))
       IN  /\ currentMatcher' = after.matcher
           /\ log' = log \o after.events
    /\ pc' = "drop"
    /\ UNCHANGED <<input, machine, currentInputState, previousIs, tryMatch,
                   matches, left>>
    /\ UNCHANGED uvars

\* DropOffset that is one character beyond the cursor.
DropOffsetBeyond(is) == is + 1

\* The offset handed to dropLeft: currentInputState.offset
DropOffset(is) == is

\* stateManager.dropLeft(currentInputState.offset)
DropLeft ==
    /\ pc = "drop"
    /\ left' = DropOffset(currentInputState)
    /\ log' = Append(log, [ev |-> "dropLeft",
                           offset |-> DropOffset(currentInputState)])
    /\ pc' = "loop"
    /\ UNCHANGED <<input, machine, currentMatcher, currentInputState,
                   previousIs, tryMatch, matches>>
    /\ UNCHANGED uvars

\* The loop test fails: consume returns.
Return ==
    /\ pc = "loop"
    /\ ~LoopTest
    /\ pc' = "done"
    /\ UNCHANGED <<input, machine, currentMatcher, currentInputState,
                   previousIs, tryMatch, matches, log, left>>
    /\ UNCHANGED uvars

Init == MachineInit

Next ==
    \/ TryMatch
    \/ LazyMatch
    \/ MachineMatch
    \/ Discard
    \/ NoObserver
    \/ ObserveRegion
    \/ ObservePrevious
    \/ DropLeft
    \/ Return

Spec == Init /\ [][Next]_vars

(***************************************************************************)
(* The update overlay as a state machine: a caller finds the matches of a  *)
(* grammar in a text, builds the overlay of one of them, and then reads    *)
(* and assigns its slots, calls replaceAll and asks for the new content.   *)
(* The variables of the consume loop stay as they are when findMatches     *)
(* returns; only its result, matches, is used.                             *)
(***************************************************************************)
MaxWrites == 2

\* The longest content an overlay is built on.
MaxContent == 3

\* The definitions whose matches are updated.
UpdateDefinitions == {2, 4, 5, 7, 8, 9}

\* The values the caller assigns.
NewValues == {JStr(<<"b">>), JStr(<<"a", "a">>)}

\* The slots of an overlay object: the properties addMatchesAsProperties
\* defined on it.
SlotNames(obj) ==
    {obj.props[i].name : i \in {j \in 1..Len(obj.props) :
                                    obj.props[j].desc.kind = "accessor"}}

UpdateInit ==
    /\ input \in {text \in Texts : Len(text) <= MaxContent}
    /\ \E g \in UpdateDefinitions :
          machine = LazyMatcher(fromDefinitions(Definitions[g]), StopNever)
    /\ matches = findMatches(machine.matcher, input, StopNever)
    /\ matches # <<>>
    /\ pc = "found"
    /\ currentMatcher = machine.matcher
    /\ currentInputState = Len(input)
    /\ previousIs = Len(input)
    /\ tryMatch = NoResult
    /\ log = <<>>
    /\ left = Len(input)
    /\ overlay = NoOverlay
    /\ held = {}
    /\ last = NoCall
    /\ writes = 0

\* updatableMatch(matches[i], input)
UpdatableMatch ==
    /\ pc = "found"
    /\ \E i \in 1..Len(matches) :
          overlay' = updatableMatch(matches[i], input)
    /\ held' = {Root}
    /\ pc' = "overlay"
    /\ UNCHANGED <<last, writes>>
    /\ UNCHANGED <<input, machine, currentMatcher, currentInputState,
                   previousIs, tryMatch, matches, log, left>>

\* The overlay objects among the values: the caller holds what it has read.
Obtained(v) == IF v.t = "object" /\ "id" \in DOMAIN v THEN {v.id} ELSE {}

\* What a read of target[name] leaves behind.
AfterRead(target, name, v) ==
    /\ last' = [op |-> "get", target |-> target, name |-> name, value |-> v]
    /\ held' = held \cup Obtained(v)

\* const v = target[name]
ReadSlot ==
    /\ pc = "overlay"
    /\ \E target \in held :
          \E name \in SlotNames(overlay.heap[target]) :
              AfterRead(target, name, GetProperty(overlay.heap, target, name))
    /\ UNCHANGED <<overlay, writes>>
    /\ UNCHANGED <<mvars>>

\* What an assignment target[name] = v leaves behind; after is its outcome.
AfterWrite(op, target, name, v, after) ==
    /\ overlay' = [after EXCEPT !.threw = FALSE]
    /\ last' = [op |-> op, target |-> target, name |-> name, value |-> v,
                threw |-> after.threw,
                p |-> Own(overlay.heap[target], name).p,
                before |-> newContent(overlay)]

\* target[name] = v
WriteSlot ==
    /\ pc = "overlay"
    /\ writes < MaxWrites
    /\ \E target \in held :
          \E name \in SlotNames(overlay.heap[target]) :
              \E v \in NewValues :
                  AfterWrite("set", target, name, v,
                             SetProperty(overlay, target, name, v))
    /\ writes' = writes + 1
    /\ UNCHANGED <<held>>
    /\ UNCHANGED <<mvars>>

\* target[name] = target[name]
SetToRead(up, target, name) ==
    SetProperty(up, target, name, GetProperty(up.heap, target, name))

WriteBack ==
    /\ pc = "overlay"
    /\ writes < MaxWrites
    /\ \E target \in held :
          \E name \in SlotNames(overlay.heap[target]) :
              AfterWrite("back", target, name,
                         GetProperty(overlay.heap, target, name),
                         SetToRead(overlay, target, name))
    /\ writes' = writes + 1
    /\ UNCHANGED <<held>>
    /\ UNCHANGED <<mvars>>

\* overlay.replaceAll(v)
ReplaceAll ==
    /\ pc = "overlay"
    /\ writes < MaxWrites
    /\ \E v \in NewValues :
          /\ overlay' = replaceAll(overlay, v)
          /\ last' = [op |-> "replaceAll", value |-> v,
                      before |-> newContent(overlay)]
    /\ writes' = writes + 1
    /\ UNCHANGED <<held>>
    /\ UNCHANGED <<mvars>>

\* overlay.newContent()
NewContent ==
    /\ pc = "overlay"
    /\ last' = [op |-> "newContent", value |-> newContent(overlay)]
    /\ UNCHANGED <<overlay, held, writes>>
    /\ UNCHANGED <<mvars>>

UpdateNext ==
    \/ UpdatableMatch
    \/ ReadSlot
    \/ WriteSlot
    \/ WriteBack
    \/ ReplaceAll
    \/ NewContent

SpecUpdate == UpdateInit /\ [][UpdateNext]_vars

\* The definitions with a computed slot among those whose matches are
\* updated.
ComputedDefinitions == {9}

\* The overlays of the matches of a grammar with a computed slot.
ComputedInit ==
    /\ UpdateInit
    /\ \E g \in ComputedDefinitions :
          machine = LazyMatcher(fromDefinitions(Definitions[g]), StopNever)

SpecComputed == ComputedInit /\ [][UpdateNext]_vars

(***************************************************************************)
(* Construction and matchPrefix as a state machine: a caller builds the    *)
(* matcher of one term definition and calls its matchPrefix once, at any   *)
(* input state of a text. machine holds the definition, currentMatcher the *)
(* matcher built, currentInputState the input state handed to matchPrefix  *)
(* and tryMatch what it returned.                                          *)
(***************************************************************************)
\* A template string and the components handed to fromString with it.
DTemplate(spec, components) ==
    [d |-> "template", spec |-> spec, components |-> components]

\* The term definitions matchers are built of.
Terms == <<
    \* 1: new Rep("a")
    DMatcher(Rep(DString(A))),
    \* 2: new Rep1("a")
    DMatcher(Rep1(DString(A))),
    \* 3: new RepSep("a", "b")
    DMatcher(RepSep(DString(A), DString(B))),
    \* 4: new Rep1Sep(/a+/, "b")
    DMatcher(Rep1Sep(DRegex({"a"}), DString(B))),
    \* 5: new Rep(new Rep("a"))
    DMatcher(Rep(DMatcher(Rep(DString(A))))),
    \* 6: new Repetition({ x: "a", y: "b" }, 2)
    DMatcher(Repetition(DObject(Definitions[2]), 2, NoSep)),
    \* 7: new Rep1(new Rep1Sep("a", "b"))
    DMatcher(Rep1(DMatcher(Rep1Sep(DString(A), DString(B))))),
    \* 8: { x: "a", y: null }
    DObject(<<Def(Nm("x"), DString(A)), Def(Nm("y"), DValue(JNull))>>),
    \* 9: { x: "a", n: () => true }
    DObject(<<Def(Nm("x"), DString(A)),
              Def(Nm("n"), DFunction(0, FnConst(JBool(TRUE))))>>),
    \* 10: { $lazy: true, x: "a", y: undefined }
    DObject(<<Def(Dollar("lazy"), DValue(JBool(TRUE))),
              Def(Nm("x"), DString(A)), Def(Nm("y"), DValue(JUndefined))>>),
    \* 11: { x: "a", _init: () => true }
    DObject(<<Def(Nm("x"), DString(A)),
              Def(Special("init"), DFunction(0, FnConst(JBool(TRUE))))>>),
    \* 12: { $consumeWhiteSpaceBetweenTokens: false, _v: () => false,
    \*       x: "a" }
    DObject(<<Def(Dollar("consumeWhiteSpaceBetweenTokens"),
                  DValue(JBool(FALSE))),
              Def(Special("v"), DFunction(0, FnConst(JBool(FALSE)))),
              Def(Nm("x"), DString(A))>>),
    \* 13: { x: "a", n: ctx => ctx.x !== undefined, y: { z: undefined } }
    DObject(<<Def(Nm("x"), DString(A)),
              Def(Nm("n"), DFunction(1, FnBound(Nm("x")))),
              Def(Nm("y"), DObject(<<Def(Nm("z"), DValue(JUndefined))>>))>>),
    \* 14: { x: "a", n: ctx => ctx.x !== undefined }
    DObject(<<Def(Nm("x"), DString(A)),
              Def(Nm("n"), DFunction(1, FnBound(Nm("x"))))>>),
    \* 15: { $lazy: true, x: "a", n: () => true }
    DObject(<<Def(Dollar("lazy"), DValue(JBool(TRUE))),
              Def(Nm("x"), DString(A)),
              Def(Nm("n"), DFunction(0, FnConst(JBool(TRUE))))>>),
    \* 16: { $skipGaps: true, x: "a", y: "b" }
    DObject(<<Def(Dollar("skipGaps"), DValue(JBool(TRUE))),
              Def(Nm("x"), DString(A)), Def(Nm("y"), DString(B))>>),
    \* 17: { x: "a", $skipGaps: true, y: "b" }
    DObject(<<Def(Nm("x"), DString(A)),
              Def(Dollar("skipGaps"), DValue(JBool(TRUE))),
              Def(Nm("y"), DString(B))>>),
    \* 18: { x: "a", y: "b", $skipGaps: true }
    DObject(<<Def(Nm("x"), DString(A)), Def(Nm("y"), DString(B)),
              Def(Dollar("skipGaps"), DValue(JBool(TRUE)))>>),
    \* 19: { $skipGaps: false, x: "a", y: "b" }
    DObject(<<Def(Dollar("skipGaps"), DValue(JBool(FALSE))),
              Def(Nm("x"), DString(A)), Def(Nm("y"), DString(B))>>),
    \* 20: takeUntil("b")
    DMatcher(takeUntil(DString(B))),
    \* 21: { x: takeUntil("b"), y: "b" }
    DObject(<<Def(Nm("x"), DMatcher(takeUntil(DString(B)))),
              Def(Nm("y"), DString(B))>>),
    \* 22: { _open: "a", s: takeUntil("a"), _close: "a" }, as hclString
    \* with "a" for the quote
    DObject(<<Def(Special("open"), DString(A)),
              Def(Nm("s"), DMatcher(takeUntil(DString(A)))),
              Def(Special("close"), DString(A))>>),
    \* 23: yadaYadaThen(/b+/)
    DMatcher(yadaYadaThen(DRegex({"b"}))),
    \* 24: fromString("a${x}b")
    DTemplate(<<TLit(A), TSlot("x"), TLit(B)>>, <<>>),
    \* 25: fromString("a${x}${y}", { y: /b+/ })
    DTemplate(<<TLit(A), TSlot("x"), TSlot("y")>>,
              <<Def(Nm("y"), DRegex({"b"}))>>),
    \* 26: fromString("${x}b${y}a")
    DTemplate(<<TSlot("x"), TLit(B), TSlot("y"), TLit(A)>>, <<>>),
    \* 27: fromString("a⤞b")
    DTemplate(<<TLit(A), TGap, TLit(B)>>, <<>>),
    \* 28: fromString("b⤞${n}", { n: /a+/ })
    DTemplate(<<TLit(B), TGap, TSlot("n")>>,
              <<Def(Nm("n"), DRegex({"a"}))>>),
    \* 29: fromString("${n}${m}", { n: /a+/, m: "b" })
    DTemplate(<<TSlot("n"), TSlot("m")>>,
              <<Def(Nm("n"), DRegex({"a"})), Def(Nm("m"), DString(B))>>)
    >>

\* The caller's handle on a term definition.
Term(definition) ==
    [class |-> "Term", definition |-> definition, matcher |-> NoMatcher,
     observer |-> NoMatcher, stopAfterMatch |-> StopNever]

MatchInit ==
    /\ input \in Texts
    /\ \E t \in 1..Len(Terms) : machine = Term(Terms[t])
    /\ pc = "define"
    /\ currentMatcher = NoMatcher
    /\ currentInputState \in 0..Len(input)
    /\ previousIs = currentInputState
    /\ tryMatch = NoResult
    /\ matches = <<>>
    /\ log = <<>>
    /\ left = 0
    /\ overlay = NoOverlay
    /\ held = {}
    /\ last = NoCall
    /\ writes = 0

\* Whether building a matcher threw an Error.
BuildThrew(m) == m.type = "Concat" /\ m.error # ""

\* The matcher a caller builds of a term: Microgrammar.fromString(spec,
\* components).matcher of a template, toMatchingLogic(definition) of
\* anything else.
MatcherOf(definition) ==
    IF definition.d = "template"
    THEN fromString(definition.spec, definition.components)
    ELSE toMatchingLogic(definition)

\* toMatchingLogic(definition) or Microgrammar.fromString(spec, components)
Build ==
    /\ pc = "define"
    /\ currentMatcher' = MatcherOf(machine.definition)
    /\ pc' = IF BuildThrew(currentMatcher') THEN "thrown" ELSE "built"
    /\ UNCHANGED <<input, machine, currentInputState, previousIs, tryMatch,
                   matches, log, left>>
    /\ UNCHANGED uvars

\* currentMatcher.matchPrefix(currentInputState)
CallMatchPrefix ==
    /\ pc = "built"
    /\ IsSet(currentMatcher)
    /\ tryMatch' = MatchPrefix(currentMatcher, input, currentInputState)
    /\ pc' = "returned"
    /\ UNCHANGED <<input, machine, currentMatcher, currentInputState,
                   previousIs, matches, log, left>>
    /\ UNCHANGED uvars

\* new Microgrammar(currentMatcher).findMatches(input)
CallFindMatches ==
    /\ pc = "built"
    /\ currentMatcher.type = "Concat"
    /\ matches' = findMatches(currentMatcher, input, StopNever)
    /\ pc' = "found"
    /\ UNCHANGED <<input, machine, currentMatcher, currentInputState,
                   previousIs, tryMatch, log, left>>
    /\ UNCHANGED uvars

\* new Microgrammar(currentMatcher).exactMatch(input)
CallExactMatch ==
    /\ pc = "built"
    /\ currentMatcher.type = "Concat"
    /\ tryMatch' = exactMatch(currentMatcher, input)
    /\ pc' = "exact"
    /\ UNCHANGED <<input, machine, currentMatcher, currentInputState,
                   previousIs, matches, log, left>>
    /\ UNCHANGED uvars

MatchNext ==
    \/ Build
    \/ CallMatchPrefix
    \/ CallFindMatches
    \/ CallExactMatch

SpecMatch == MatchInit /\ [][MatchNext]_vars

(***************************************************************************)
(* Properties of findMatches and of matchPrefix.                           *)
(***************************************************************************)
IsFindMatches == machine.class = "LazyMatcher"

IsDefaultFindMatches == IsFindMatches /\ machine.stopAfterMatch = StopNever

\* input[m.$offset .. m.$offset + len(m.$matched))
Span(text, m) == SubSeq(text, m.offset + 1, m.offset + Len(m.matched))

SpanIsMatched(text, m) ==
    /\ m.offset + Len(m.matched) <= Len(text)
    /\ Span(text, m) = m.matched

RECURSIVE WellSpanned(_, _)
\* m and every match inside m (the matches of its slots, and the tree
\* matches a repetition holds as values) lie where they say they lie.
WellSpanned(text, m) ==
    /\ SpanIsMatched(text, m)
    /\ \A i \in 1..Len(m.thingsInside) :
         m.thingsInside[i].kind # "compute"
            => WellSpanned(text, m.thingsInside[i].match)
    /\ m.value.t = "array"
         => \A i \in 1..Len(m.value.items) :
              "kind" \in DOMAIN m.value.items[i]
                 => WellSpanned(text, m.value.items[i])

\* C1: the matches findMatches collects with the default stopAfterMatch
\* have strictly increasing offsets and do not overlap: each ends at or
\* before the offset of the next.
C1_IncreasingDisjoint ==
    IsDefaultFindMatches =>
        \A i \in 1..(Len(matches) - 1) :
            /\ matches[i].offset < matches[i + 1].offset
            /\ matches[i].offset + Len(matches[i].matched)
                  <= matches[i + 1].offset

\* findMatches has returned two or more matches, the first of them longer
\* than one character.
C1_Witness ==
    /\ IsDefaultFindMatches
    /\ pc = "done"
    /\ Len(matches) >= 2
    /\ Len(matches[1].matched) >= 2

\* C2: every match findMatches collects, and every match inside it, has as
\* its $matched the input text from its $offset on, skipped whitespace
\* included.
C2_MatchedIsInputSpan ==
    IsFindMatches =>
        \A i \in 1..Len(matches) : WellSpanned(input, matches[i])

\* findMatches has returned a match with a nested match in it that skipped
\* whitespace between its steps and did not start at offset 0.
C2_Witness ==
    /\ IsFindMatches
    /\ pc = "done"
    /\ \E i \in 1..Len(matches) :
         /\ matches[i].offset > 0
         /\ \E k \in 1..Len(matches[i].matched) :
               matches[i].matched[k] = " "
         /\ \E j \in 1..Len(matches[i].thingsInside) :
               isNestedThing(matches[i].thingsInside[j])

\* C3: a failure returned by Concat.matchPrefix carries the offset of the
\* input state it was called with, and the caller's input state is still
\* at that offset.
C3_FailureAtInitialOffset ==
    (pc = "tried" /\ ~tryMatch.ok /\ ~tryMatch.thrown) =>
        /\ tryMatch.offset = previousIs
        /\ currentInputState = previousIs

\* Concat.matchPrefix has failed at its third step (a veto) or at a later
\* matcher step, after earlier steps consumed input.
C3_Witness ==
    /\ pc = "tried"
    /\ ~tryMatch.ok
    /\ tryMatch.description \in
          {<<"Failed at step", Nm("y")>>,
           <<"Match vetoed by", Special("short")>>}
    /\ previousIs > 0

\* The steps of Concat c before the step called id that bind a slot.
SlotsBefore(c, id) ==
    LET at == CHOOSE i \in 1..Len(c.matchSteps) : c.matchSteps[i].id = id
    IN  {c.matchSteps[i].id : i \in
            {j \in 1..(at - 1) : c.matchSteps[j].kind # "veto"}}

VetoCalls(r) == {i \in 1..Len(r.calls) : r.calls[i].kind = "veto"}

\* C4: a veto fails the Concat iff it returns exactly false, and matching
\* goes on after any other return value; the veto is handed exactly the
\* slots bound by the steps before it, and it adds no slot to the tree.
C4_VetoOnlyOnFalse ==
    (pc = "tried" /\ ~tryMatch.thrown) =>
        \A i \in VetoCalls(tryMatch) :
            LET call == tryMatch.calls[i]
                vetoed == /\ ~tryMatch.ok
                          /\ tryMatch.description =
                                <<"Match vetoed by", call.step>>
            IN  /\ vetoed <=> (call.ret = JBool(FALSE))
                /\ vetoed => i = Len(tryMatch.calls)
                /\ DOMAIN call.ctx = SlotsBefore(currentMatcher, call.step)
                /\ tryMatch.ok =>
                      call.step \notin ThingNames(tryMatch.match.thingsInside)

\* A Concat has matched after its vetoes returned undefined, null, 0, "",
\* true and an object.
C4_Witness ==
    /\ pc = "tried"
    /\ tryMatch.ok
    /\ \A k \in 1..Len(NotFalse) :
         \E i \in VetoCalls(tryMatch) : tryMatch.calls[i].ret = NotFalse[k]

\* A veto has returned false and failed the Concat.
C4_WitnessVetoed ==
    /\ pc = "tried"
    /\ ~tryMatch.ok
    /\ \E i \in VetoCalls(tryMatch) : tryMatch.calls[i].ret = JBool(FALSE)

\* C5: once onMatch has returned no matcher, consume makes no further
\* matchPrefix call and delivers no further onMatch callback.
C5_StopsAfterEmptyOnMatch ==
    \A i \in 1..Len(log) :
        (log[i].ev = "onMatch" /\ ~IsSet(log[i].ret)) =>
            \A j \in (i + 1)..Len(log) :
                log[j].ev \notin {"matchPrefix", "onMatch"}

\* list up to and including its first match that stop accepts.
RECURSIVE ThroughFirst(_, _)
ThroughFirst(list, stop) ==
    IF list = <<>> THEN <<>>
    ELSE IF StopAfterMatch(stop, Head(list)) THEN <<Head(list)>>
    ELSE <<Head(list)>> \o ThroughFirst(Tail(list), stop)

\* C6: findMatches with a stopAfterMatch returns the default list up to
\* and including the first match the predicate accepts; firstMatch
\* returns the head of the default list, or null when it is empty.
C6_StopAfterIsPrefix ==
    (IsFindMatches /\ pc = "done") =>
        LET all == findMatches(machine.matcher, input, StopNever)
        IN  /\ matches = ThroughFirst(all, machine.stopAfterMatch)
            /\ firstMatch(machine.matcher, input) =
                  IF all = <<>> THEN NoMatch ELSE all[1]

\* findMatches has stopped on its second match while the default list has
\* more.
C6_Witness ==
    /\ IsFindMatches
    /\ pc = "done"
    /\ Len(matches) = 2
    /\ Len(findMatches(machine.matcher, input, StopNever)) > 2

(***************************************************************************)
(* Properties of the update overlay, checked under SpecUpdate.             *)
(***************************************************************************)
\* text with the span of match replaced by the string v
Replaced(text, match, v) ==
    SubSeq(text, 1, match.offset) \o v.s
        \o SubSeq(text, match.offset + Len(match.matched) + 1, Len(text))

\* C7: an overlay that has just been built, with no write made on it, has
\* recorded no edit, and its newContent() is the content the match was
\* found in.
C7_NoWriteNoEdit ==
    (pc = "overlay" /\ writes = 0) =>
        /\ overlay.cs.changes = <<>>
        /\ newContent(overlay) = input

\* C8: when the first write on an overlay whose content is still the
\* original assigns to a scalar or nested slot the value just read from
\* that slot, newContent() is the original content.
C8_WriteBackKeepsContent ==
    (/\ pc = "overlay" /\ writes = 1 /\ last.op = "back"
     /\ ~isComputedThing(last.p)
     /\ last.before = input)
        => (~last.threw /\ newContent(overlay) = input)

\* What reading target[name] does: the getter returns a value and has no
\* throw statement.
ReadOutcome(up, target, name) ==
    [threw |-> FALSE, value |-> GetProperty(up.heap, target, name)]

\* C9: after a value is assigned to a nested slot, every read and every
\* write of a slot of the child overlay the caller had obtained from that
\* slot raises an error.
C9_ChildInvalidated ==
    (/\ pc = "overlay" /\ last.op = "set" /\ ~last.threw
     /\ isNestedThing(last.p)
     /\ ChildOf(last.target, last.name) \in held)
        => \A name \in SlotNames(overlay.heap[ChildOf(last.target, last.name)]) :
              /\ ReadOutcome(overlay, ChildOf(last.target, last.name),
                             name).threw
              /\ \A v \in NewValues :
                    SetProperty(overlay, ChildOf(last.target, last.name),
                                name, v).threw

\* C10: after the first write on an overlay, an assignment of v to a scalar
\* or nested slot at any depth, newContent() is the original content with
\* the span of the slot's match replaced by v, and the slot reads v; after
\* replaceAll(v) as the first write, newContent() is the original content
\* with the span of the whole match replaced by v.
C10_WriteReplacesSpan ==
    /\ (/\ pc = "overlay" /\ writes = 1 /\ last.op = "set"
        /\ ~isComputedThing(last.p))
          => /\ ~last.threw
             /\ newContent(overlay) = Replaced(input, last.p.match, last.value)
             /\ GetProperty(overlay.heap, last.target, last.name) = last.value
    /\ (pc = "overlay" /\ writes = 1 /\ last.op = "replaceAll")
          => newContent(overlay) = Replaced(input, overlay.match, last.value)

(***************************************************************************)
(* Properties of Repetition, checked under SpecMatch.                      *)
(***************************************************************************)
\* The input state a Repetition tries its inner matcher at first.
FirstTry(r, text, is) ==
    ReadyToMatch(text, is, Truthy(r.consumeWhiteSpaceBetweenTokens)).state

\* The inner matcher of r matches the empty string where r first tries it.
InnerMatchesEmpty(r, text, is) ==
    /\ isSuccessfulMatch(MatchPrefix(r.matcher, text, FirstTry(r, text, is)))
    /\ MatchPrefix(r.matcher, text, FirstTry(r, text, is)).match.matched = <<>>

\* C11: matchPrefix of a Repetition whose inner matcher matches the empty
\* string at the input state it is called on throws the degenerate-grammar
\* error, at every input state, the end of the input included.
C11_EmptyInnerRaises ==
    (/\ pc = "returned"
     /\ currentMatcher.type = "Rep"
     /\ InnerMatchesEmpty(currentMatcher, input, currentInputState))
        => tryMatch.thrown

RECURSIVE InnerRun(_, _, _)
\* The maximal run of inner matches of r from is, each but the first
\* preceded by a separator when r has one: how many they are, and whether
\* an inner match was empty (or could not be made) on the way.
InnerRun(r, text, is) ==
    LET inner == MatchPrefix(r.matcher, text, FirstTry(r, text, is)) IN
    IF inner.thrown THEN [count |-> 0, degenerate |-> TRUE]
    ELSE IF ~isSuccessfulMatch(inner) THEN [count |-> 0, degenerate |-> FALSE]
    ELSE IF inner.match.matched = <<>> THEN [count |-> 0, degenerate |-> TRUE]
    ELSE LET after == Consume(FirstTry(r, text, is), inner.match.matched)
             sep == IF IsSet(r.sepMatcher)
                    THEN MatchPrefix(r.sepMatcher, text, FirstTry(r, text, after))
                    ELSE matchPrefixSuccess(
                            TerminalPatternMatch(<<>>, <<>>, after, JStr(<<>>)),
                            <<>>)
             next == IF IsSet(r.sepMatcher)
                     THEN Consume(FirstTry(r, text, after), sep.match.matched)
                     ELSE after
         IN  IF ~isSuccessfulMatch(sep)
             THEN [count |-> 1, degenerate |-> sep.thrown]
             ELSE [count |-> 1 + InnerRun(r, text, next).count,
                   degenerate |-> InnerRun(r, text, next).degenerate]

\* C12: when no inner match is empty, matchPrefix of a Repetition succeeds
\* exactly when the maximal run of inner matches has at least min members;
\* otherwise it returns a failure at the offset it was called at. With
\* min = 0 it succeeds.
C12_SucceedsIffMinReached ==
    (/\ pc = "returned"
     /\ currentMatcher.type = "Rep"
     /\ ~InnerRun(currentMatcher, input, currentInputState).degenerate)
        => /\ ~tryMatch.thrown
           /\ isSuccessfulMatch(tryMatch)
                <=> InnerRun(currentMatcher, input, currentInputState).count
                        >= currentMatcher.min
           /\ ~isSuccessfulMatch(tryMatch)
                => tryMatch.offset = currentInputState
           /\ currentMatcher.min = 0 => isSuccessfulMatch(tryMatch)

\* A Rep1Sep called in the middle of a text has collected two inner matches
\* with a separator between them.
C12_Witness ==
    /\ pc = "returned"
    /\ currentMatcher.type = "Rep"
    /\ currentMatcher.min = 1
    /\ IsSet(currentMatcher.sepMatcher)
    /\ currentInputState > 0
    /\ isSuccessfulMatch(tryMatch)
    /\ InnerRun(currentMatcher, input, currentInputState).count = 2

\* A Repetition with min = 2 has found one inner match and failed.
C12_WitnessFailure ==
    /\ pc = "returned"
    /\ currentMatcher.type = "Rep"
    /\ currentMatcher.min = 2
    /\ currentInputState > 0
    /\ ~isSuccessfulMatch(tryMatch)
    /\ InnerRun(currentMatcher, input, currentInputState).count = 1

\* An entry of a repetition's value that is a pattern match, not a value.
IsMatchEntry(entry) == "kind" \in DOMAIN entry

\* C13: a successful Repetition match is of kind Array, and its value has
\* one entry per inner match, in input order: an inner terminal match's
\* value, or the inner tree match itself.
C13_ArrayOfInnerValues ==
    (/\ pc = "returned"
     /\ currentMatcher.type = "Rep"
     /\ isSuccessfulMatch(tryMatch))
        => /\ tryMatch.match.kind = "array"
           /\ Len(tryMatch.match.value.items)
                = InnerRun(currentMatcher, input, currentInputState).count
           /\ \A i \in 1..Len(tryMatch.match.value.items) :
                IsMatchEntry(tryMatch.match.value.items[i])
                    => isTreePatternMatch(tryMatch.match.value.items[i])

(***************************************************************************)
(* Properties of Concat.of, checked under SpecMatch.                       *)
(***************************************************************************)
\* A step (a key that is no $ option) whose definition is null or
\* undefined, or a function declared with no parameter.
IsBadStep(def) ==
    /\ charAt0(def.key) # "$"
    /\ \/ def.def = DValue(JNull)
       \/ def.def = DValue(JUndefined)
       \/ def.def.d = "function" /\ def.def.length = 0

HasBadStep(definitions) ==
    \E i \in 1..Len(definitions) : IsBadStep(definitions[i])

\* C14: Concat.of(definitions) throws, and returns no Concat, whenever one
\* of the steps of definitions is null, undefined or a function with no
\* parameter, whatever options definitions holds.
C14_BadStepRaises ==
    (/\ pc # "define"
     /\ machine.definition.d = "object"
     /\ HasBadStep(machine.definition.defs))
        => pc = "thrown"

\* Whether the definitions object carries $skipGaps: true.
SkipGapsOn(definitions) ==
    /\ HasKey(definitions, Dollar("skipGaps"))
    /\ Lookup(definitions, Dollar("skipGaps")) = DValue(JBool(TRUE))

\* Whether a matcher step is a Break of the matcher of its definition.
IsWrapped(definitions, step) ==
    /\ step.ml.type = "Break"
    /\ step.ml.breakOn = toMatchingLogic(Lookup(definitions, step.name))

\* C15: once a Concat is built of a definitions object, every matcher step
\* is a Break of the matcher of its definition when the object carries
\* $skipGaps: true, wherever that key stands among the keys, and no matcher
\* step is a Break when $skipGaps is absent or false.
C15_SkipGapsWrapsEveryStep ==
    (pc = "built" /\ machine.definition.d = "object"
        /\ currentMatcher.lazy # JBool(TRUE)) =>
        \A i \in 1..Len(currentMatcher.matchSteps) :
            LET step == currentMatcher.matchSteps[i] IN
            isMatcher(step) =>
                IF SkipGapsOn(machine.definition.defs)
                THEN IsWrapped(machine.definition.defs, step)
                ELSE step.ml = toMatchingLogic(
                                   Lookup(machine.definition.defs, step.name))

\* Whether matcher m matches somewhere in text from input state is on,
\* before the end of the input.
TerminatorFound(m, text, is) ==
    \E p \in is..(Len(text) - 1) : MatchPrefix(m, text, p).ok

\* The first input state from is on at which m matches.
FirstTerminator(m, text, is) ==
    CHOOSE p \in is..(Len(text) - 1) :
        /\ MatchPrefix(m, text, p).ok
        /\ \A q \in is..(p - 1) : ~MatchPrefix(m, text, q).ok

\* A Break in its default form: new Break(terminator).
IsDefaultBreak(m) == m.type = "Break" /\ ~m.consume

\* Whether match b of a default Break of terminator, made in text, is the
\* text up to the first place the terminator matches plus extra characters
\* of what the terminator matched there.
BreakTook(b, terminator, text, extra) ==
    /\ TerminatorFound(terminator, text, b.offset)
    /\ b.matched = SubSeq(text, b.offset + 1,
                       FirstTerminator(terminator, text, b.offset) + extra)

\* The length of what terminator matches at its first place from is on.
TerminatorLen(terminator, text, is) ==
    Len(MatchPrefix(terminator, text,
            FirstTerminator(terminator, text, is)).match.matched)

\* Whether tryMatch is the match of a Concat whose i-th step is a default
\* Break followed by a matcher step.
BreakThenStep(i) ==
    /\ pc = "returned" /\ currentMatcher.type = "Concat" /\ tryMatch.ok
    /\ i + 1 <= Len(currentMatcher.matchSteps)
    /\ \A j \in 1..(i + 1) : isMatcher(currentMatcher.matchSteps[j])
    /\ IsDefaultBreak(currentMatcher.matchSteps[i].ml)

OpenSlots(definition) ==
    {i \in 1..Len(definition.spec) :
        /\ definition.spec[i].tok = "slot"
        /\ ~IsAnchor(definition.spec, definition.components, i)
        /\ IsAnchor(definition.spec, definition.components, i + 1)}

\* Whether, in match m of the grammar of a template, the i-th token (an
\* open slot) is bound to the text from where its match starts up to, and
\* not including, the first place the anchor after it matches.
BoundUpToAnchor(definition, m, text, i) ==
    LET anchor == Anchor(definition.spec, definition.components, i + 1)
        x == m.thingsInside[i].match
    IN  /\ m.thingsInside[i].name = Nm(definition.spec[i].name)
        /\ TerminatorFound(anchor, text, x.offset)
        /\ x.matched = SubSeq(text, x.offset + 1,
                           FirstTerminator(anchor, text, x.offset))
        /\ submatches(m)[Nm(definition.spec[i].name)] = JStr(x.matched)

HasGap(definition) ==
    /\ definition.d = "template"
    /\ \E i \in 2..(Len(definition.spec) - 1) :
          /\ definition.spec[i].tok = "gap"
          /\ IsAnchor(definition.spec, definition.components, i - 1)
          /\ IsAnchor(definition.spec, definition.components, i + 1)

\* The names of the slots of a template.
SlotNamesOf(definition) ==
    {Nm(definition.spec[i].name) :
        i \in {j \in 1..Len(definition.spec) : definition.spec[j].tok = "slot"}}

\* Whether match m, made in text, is the text from the start of its first
\* thing to the end of its last, with no value but those of the slots.
SpansAnchors(definition, m, text) ==
    LET first == m.thingsInside[1].match
        end == m.thingsInside[Len(m.thingsInside)].match
    IN  /\ Len(m.thingsInside) = Len(definition.spec)
        /\ m.offset = first.offset
        /\ m.matched = SubSeq(text, first.offset + 1,
                           end.offset + Len(end.matched))
        /\ DOMAIN submatches(m) = SlotNamesOf(definition)

ReturnedPrefixMatch ==
    /\ tryMatch.ok
    /\ MatchPrefix(currentMatcher, input, 0).ok
    /\ tryMatch.match = MatchPrefix(currentMatcher, input, 0).match

\* Whether exactMatch returned a failure report, a value that is no match.
ReturnedFailure == ~tryMatch.ok /\ ~tryMatch.thrown

OnlyWhitespaceAfter(text, n) ==
    \A j \in (n + 1)..Len(text) : IsWhitespace(text[j])

C19_WitnessLeftOver ==
    /\ pc = "exact" /\ machine.definition = Terms[24]
    /\ ReturnedFailure
    /\ MatchPrefix(currentMatcher, input, 0).ok

\* Whether thing p of tree match t is kept from the user's data: no
\* property of t, no key of submatches() or matchedStructure(), and no
\* property of overlay object o.
IsHidden(t, o, p) ==
    /\ p.name \notin DOMAIN TreeGetters(t.thingsInside)
    /\ p.name \notin DOMAIN submatches(t)
    /\ p.name \notin DOMAIN matchedStructure(t)
    /\ ~HasOwn(o, p.name)

\* Whether thing p of tree match t is a property of t that returns its
\* value: the match of a nested thing, the value matched or computed of any
\* other.
IsExposed(t, p) ==
    /\ p.name \in DOMAIN TreeGetters(t.thingsInside)
    /\ TreeGetters(t.thingsInside)[p.name] =
          CASE isNestedThing(p) -> p.match
            [] isScalarThing(p) -> p.match.value
            [] OTHER -> p.value

\* C20: of the tree match an update overlay is built from, every slot whose
\* name begins with "_" is no property of the tree, no key of submatches()
\* or matchedStructure() and no property of the overlay, and every other
\* slot is a property of the tree that returns its value.
C20_SpecialSlotsHidden ==
    overlay.match # NoMatch =>
        \A i \in 1..Len(overlay.match.thingsInside) :
            LET p == overlay.match.thingsInside[i] IN
            IF isSpecialMember(p.name)
            THEN IsHidden(overlay.match, overlay.heap[Root], p)
            ELSE IsExposed(overlay.match, p)

\* Whether the step is an assignment to the property of a computed slot.
AssignsComputed ==
    /\ writes' = writes + 1
    /\ last'.op \in {"set", "back"}
    /\ isComputedThing(last'.p)

\* C21: an assignment to the property of a computed slot of an overlay
\* throws, and leaves the ChangeSet and the objects of the overlay as they
\* were; the property reads the computed value afterwards.
C21_ComputedIsReadOnly ==
    [][AssignsComputed =>
          /\ last'.threw
          /\ overlay'.cs = overlay.cs
          /\ overlay'.heap = overlay.heap
          /\ GetProperty(overlay'.heap, last'.target, last'.name)
                = last'.p.value]_vars

\* An assignment to the property of a computed slot threw, after an
\* assignment that recorded an edit.
C21_Witness ==
    /\ pc = "overlay" /\ last.op = "set"
    /\ isComputedThing(last.p) /\ last.threw
    /\ overlay.cs.changes # <<>>

\* The place in the log of the matchPrefix call of the current iteration.
IterationStart ==
    CHOOSE i \in 1..Len(log) :
        /\ log[i].ev = "matchPrefix"
        /\ \A j \in (i + 1)..Len(log) : log[j].ev # "matchPrefix"

\* The callbacks of the current iteration so far, in order.
IterationEvents == SubSeq(log, IterationStart + 1, Len(log))

\* Whether the current iteration has handled the outcome of matchPrefix as
\* it handles a failure: no onMatch, the cursor one character on from where
\* matchPrefix was called (unless the input ended there), and the observer,
\* if there is one, tried at that input state and its match observed.
HandledAsFailure ==
    /\ \A i \in 1..Len(IterationEvents) : IterationEvents[i].ev # "onMatch"
    /\ currentInputState =
          IF Exhausted(input, previousIs) THEN previousIs ELSE previousIs + 1
    /\ (IsSet(machine.observer)
           /\ MatchPrefix(machine.observer, input, previousIs).ok) =>
          \E i \in 1..Len(IterationEvents) :
              /\ IterationEvents[i].ev = "observeMatch"
              /\ IterationEvents[i].match =
                    MatchPrefix(machine.observer, input, previousIs).match

\* C22: when consume reaches the end of an iteration in which matchPrefix
\* returned a success with empty matched text, it has handled it as it
\* handles a failure.
C22_EmptySuccessIsFailure ==
    (pc = "drop" /\ tryMatch.ok /\ tryMatch.match.matched = <<>>) =>
        HandledAsFailure

\* C23: at the end of every iteration of consume's loop, where left is
\* still the cursor's offset at the start of the iteration, the cursor is
\* further on than it was or the loop test fails (the cursor is exhausted or
\* there is no current matcher); so consume ends after at most as many
\* iterations as the input has characters.
C23_IterationAdvances ==
    /\ pc = "drop" => (currentInputState > left \/ ~LoopTest)
    /\ Len(SelectSeq(log, LAMBDA e : e.ev = "dropLeft")) <= Len(input)

\* consume has returned after more than one iteration, one of which
\* accepted a match and one of which did not.
C23_Witness ==
    /\ pc = "done"
    /\ Len(SelectSeq(log, LAMBDA e : e.ev = "dropLeft")) > 1
    /\ Len(SelectSeq(log, LAMBDA e : e.ev = "onMatch")) > 0
    /\ Len(SelectSeq(log, LAMBDA e : e.ev = "onMatch"))
          < Len(SelectSeq(log, LAMBDA e : e.ev = "dropLeft"))

\* The places in the log of the onMatch calls whose iteration has ended.
EndedOnMatches ==
    {k \in 1..Len(log) :
        /\ log[k].ev = "onMatch"
        /\ \E d \in (k + 1)..Len(log) : log[d].ev = "dropLeft"}

\* The place in the log of the dropLeft that ends the iteration of the
\* onMatch call at k.
EndOf(k) ==
    CHOOSE d \in (k + 1)..Len(log) :
        /\ log[d].ev = "dropLeft"
        /\ \A j \in (k + 1)..(d - 1) : log[j].ev # "dropLeft"

\* The observer's hits in the text of match, none without an observer.
RegionHits(match) ==
    IF IsSet(machine.observer)
    THEN findMatches(ObserverGrammar(machine.observer), match.matched,
                     StopNever)
    ELSE <<>>

\* C24: in the log of consume, the onMatch call of an iteration comes right
\* after the iteration's matchPrefix call, the observeMatch calls for the
\* observer's hits in the match's text all come after it, one for each hit
\* in order, and they all come before the iteration's dropLeft and so
\* before the next matchPrefix call.
C24_OnMatchThenObservers ==
    \A k \in EndedOnMatches :
        /\ log[k - 1].ev = "matchPrefix"
        /\ EndOf(k) - k - 1 = Len(RegionHits(log[k].match))
        /\ \A j \in 1..(EndOf(k) - k - 1) :
              /\ log[k + j].ev = "observeMatch"
              /\ log[k + j].match = RegionHits(log[k].match)[j]
        /\ EndOf(k) < Len(log) => log[EndOf(k) + 1].ev = "matchPrefix"

\* An iteration with an onMatch call and two observeMatch calls has ended
\* and the next matchPrefix call has been made.
C24_Witness ==
    \E k \in EndedOnMatches :
        /\ EndOf(k) - k - 1 >= 2
        /\ EndOf(k) < Len(log)

\* The dropLeft calls of the log, in order.
Drops == SelectSeq(log, LAMBDA e : e.ev = "dropLeft")

\* C25: consume calls dropLeft once at the end of every iteration, with the
\* offset of the current cursor; the offsets passed never decrease; and no
\* cursor still to be used is behind the offset last passed: the current
\* cursor never is, nor is the previous cursor while the observer has yet
\* to be handed it.
C25_DropLeftBehindCursors ==
    /\ pc \in {"loop", "done"} =>
          /\ Len(Drops) = Len(SelectSeq(log, LAMBDA e : e.ev = "matchPrefix"))
          /\ log # <<>> =>
                /\ log[Len(log)].ev = "dropLeft"
                /\ log[Len(log)].offset = currentInputState
    /\ \A i \in 1..(Len(Drops) - 1) : Drops[i].offset <= Drops[i + 1].offset
    /\ Drops # <<>> => left = Drops[Len(Drops)].offset
    /\ left <= currentInputState
    /\ pc \in {"tried", "observe"} => left <= previousIs

\* dropLeft has been called twice, the second time with a greater offset,
\* after an iteration in which the observer was handed the previous cursor.
C25_Witness ==
    /\ pc = "loop" /\ Len(Drops) >= 2
    /\ Drops[Len(Drops) - 1].offset < Drops[Len(Drops)].offset
    /\ IsSet(machine.observer) /\ ~tryMatch.ok

\* Whether the offset of match m places its text in the input.
IsAbsolute(m) ==
    /\ m.offset + Len(m.matched) <= Len(input)
    /\ SubSeq(input, m.offset + 1, m.offset + Len(m.matched)) = m.matched

\* C26: every match consume has passed to observeMatch carries an offset
\* at which its matched text stands in the whole input.
C26_ObservedOffsetIsAbsolute ==
    \A i \in 1..Len(log) :
        log[i].ev = "observeMatch" => IsAbsolute(log[i].match)

\* C27: the input state consume hands to matchPrefix is the cursor the
\* iteration began with (the offset last dropped to), moved over leading
\* whitespace exactly when the matcher in use for the call has
\* $consumeWhiteSpaceBetweenTokens true, whichever matcher the machine
\* began with.
C27_CurrentMatcherDecidesWhitespace ==
    pc = "tried" =>
        currentInputState =
            IF currentMatcher.consumeWhiteSpaceBetweenTokens = JBool(TRUE)
            THEN SkipWhitespace(input, left)
            ELSE left

\* The nested slots of overlay object target other than name.
NestedSiblings(up, target, name) ==
    {s \in SlotNames(up.heap[target]) \ {name} :
        isNestedThing(Own(up.heap[target], s).p)}

\* Whether the slots of overlay object child read what they read on a
\* freshly built overlay, and take an assignment that records its edit.
IsUsable(up, child) ==
    \A f \in SlotNames(up.heap[child]) :
        /\ GetProperty(up.heap, child, f)
              = GetProperty(updatableMatch(up.match, input).heap, child, f)
        /\ ~isComputedThing(Own(up.heap[child], f).p) =>
              \A v \in NewValues :
                  /\ ~SetProperty(up, child, f, v).threw
                  /\ \E i \in 1..Len(SetProperty(up, child, f, v).cs.changes) :
                        SetProperty(up, child, f, v).cs.changes[i]
                          = [match |-> Own(up.heap[child], f).p.match,
                             to |-> v]

\* C28: after the first write on an overlay, an assignment to a nested
\* slot, the overlay of every sibling nested slot is not invalidated, and
\* its fields read their values and take assignments that record their
\* edits.
C28_SiblingsStayUsable ==
    (/\ pc = "overlay" /\ writes = 1 /\ last.op = "set" /\ ~last.threw
     /\ isNestedThing(last.p))
        => \A s \in NestedSiblings(overlay, last.target, last.name) :
              /\ ~overlay.heap[ChildOf(last.target, s)].invalidated
              /\ IsUsable(overlay, ChildOf(last.target, s))

\* C29: on an overlay nothing has been written to, the property of every
\* scalar slot at the root reads the slot's own value; and after the first
\* write, an assignment of v to a scalar or nested slot, the ChangeSet holds
\* one edit, of the slot's own match to v.
C29_SlotsAreIndependent ==
    /\ (pc = "overlay" /\ writes = 0) =>
          \A n \in SlotNames(overlay.heap[Root]) :
              isScalarThing(Own(overlay.heap[Root], n).p) =>
                  GetProperty(overlay.heap, Root, n)
                    = Own(overlay.heap[Root], n).p.match.value
    /\ (/\ pc = "overlay" /\ writes = 1 /\ last.op = "set"
        /\ ~isComputedThing(last.p)) =>
          /\ ~last.threw
          /\ overlay.cs.changes
                = <<[match |-> last.p.match, to |-> last.value]>>

\* How many characters of text are c.
CountOf(text, c) == Cardinality({i \in 1..Len(text) : text[i] = c})

\* C30: a successful match of a repetition of "a" or /a+/ separated by "b"
\* holds one separator less than it has inner matches (none when it has
\* none), and its matched text does not end with the separator.
C30_SeparatorOnlyBetween ==
    (/\ pc = "returned" /\ currentMatcher.type = "Rep"
     /\ currentMatcher.sepMatcher = Literal(B) /\ tryMatch.ok) =>
        /\ CountOf(tryMatch.match.matched, "b")
              = IF Len(tryMatch.match.value.items) = 0 THEN 0
                ELSE Len(tryMatch.match.value.items) - 1
        /\ tryMatch.match.matched # <<>> =>
              tryMatch.match.matched[Len(tryMatch.match.matched)] # "b"

=============================================================================
